---- MODULE Spec2Model ----
(***************************************************************************)
(* Receipt field extraction (parser_receipt.py) as a state machine.        *)
(*                                                                         *)
(* Text is a sequence of one-character strings, so that every regular      *)
(* expression of the source is evaluated character by character.           *)
(* Confidences are integers in hundredths (0.90 is 90); scores are         *)
(* integers in ten-thousandths (0.90 * 0.55 is 4950).  Amounts are exact   *)
(* decimals: the digits of the whole part and of the fractional part.      *)
(***************************************************************************)
EXTENDS Integers, Sequences, FiniteSets, TLC

VARIABLES
    nx,       \* Normalizer run: the input string x
    n1,       \* Normalizer run: _clean(x)
    n2,       \* Normalizer run: _clean(_clean(x))
    npc,      \* Normalizer run: "idle", "start", "once", "twice"
    a_in,     \* AmountLexer run: the argument s of _parse_tr_amount
    a_out,    \* AmountLexer run: what the call returned or raised
    apc,      \* AmountLexer run: "idle", "start", "done"
    raw_text,                \* parse_receipt_fields: the argument raw_text
    clean_text,              \* parse_receipt_fields: text = _clean(raw_text)
    out_schema_version,      \* out["schema_version"]
    out_fields,              \* out["fields"]
    out_warnings,            \* out["warnings"]
    out_amount_candidates,   \* out["amount_candidates"], the local amounts
    out_overall_confidence,  \* out["overall_confidence"], in hundredths
    pc,                      \* parse_receipt_fields: the section about to run
    heap,     \* Concurrent calls: the dicts and lists the calls have created
    calls,    \* Concurrent calls: the locals of each caller's call
    received,   \* Bot and worker: the number of Telegram messages handled
    inbox,      \* Bot and worker: the files of data/*/inbox, oldest first
    processed,  \* Bot and worker: the files of data/*/processed
    failed,     \* Bot and worker: the files of data/*/failed
    output,     \* Bot and worker: the stems of the files of data/*/output
    runs,       \* Bot and worker: how often the try block has run on a file
    worker      \* Bot and worker: the position of the worker's main loop

vars ==
    <<nx, n1, n2, npc, a_in, a_out, apc, raw_text, clean_text, out_schema_version, out_fields,
      out_warnings, out_amount_candidates, out_overall_confidence, pc, heap, calls,
      received, inbox, processed, failed, output, runs, worker>>

parser_vars ==
    <<raw_text, clean_text, out_schema_version, out_fields, out_warnings, out_amount_candidates,
      out_overall_confidence, pc>>

ParserIdle ==
    /\ raw_text = <<>>
    /\ clean_text = <<>>
    /\ out_schema_version = "None"
    /\ out_fields = <<>>
    /\ out_warnings = <<>>
    /\ out_amount_candidates = <<>>
    /\ out_overall_confidence = 0
    /\ pc = "idle"

normalizer_vars == <<nx, n1, n2, npc>>

lexer_vars == <<a_in, a_out, apc>>

caller_vars == <<heap, calls>>

CallersIdle == heap = <<>> /\ calls = <<>>

worker_vars == <<received, inbox, processed, failed, output, runs, worker>>

WorkerIdle ==
    /\ received = 0
    /\ inbox = <<>>
    /\ processed = {}
    /\ failed = {}
    /\ output = {}
    /\ runs = <<>>
    /\ worker = <<>>

NormalizerIdle == nx = <<>> /\ n1 = <<>> /\ n2 = <<>> /\ npc = "idle"

(***************************************************************************)
(* Characters and character classes of Python's re module.                 *)
(***************************************************************************)
Digits == {"0", "1", "2", "3", "4", "5", "6", "7", "8", "9"}

\* str.strip() and \s: the whitespace characters of the modelled alphabet.
Whitespace == {" ", "\t", "\n", "\r"}

\* [ \t]
Blank == {" ", "\t"}

Min(a, b) == IF a <= b THEN a ELSE b

Max(a, b) == IF a >= b THEN a ELSE b

\* The subsequence of t at the indices lo..hi that are in K, in order (by
\* halves, so that a long text needs few nested evaluations).
RECURSIVE KeepFrom(_, _, _, _)
KeepFrom(t, K, lo, hi) ==
    IF lo > hi THEN <<>>
    ELSE IF lo = hi THEN (IF lo \in K THEN <<t[lo]>> ELSE <<>>)
    ELSE KeepFrom(t, K, lo, (lo + hi) \div 2) \o KeepFrom(t, K, (lo + hi) \div 2 + 1, hi)

Keep(t, K) == KeepFrom(t, K, 1, Len(t))

\* Every string over the alphabet A of length at most n.
RECURSIVE StringsUpTo(_, _)
StringsUpTo(A, n) ==
    IF n = 0 THEN {<<>>}
    ELSE LET S == StringsUpTo(A, n - 1)
         IN  S \cup {Append(s, c) : s \in {u \in S : Len(u) = n - 1}, c \in A}

\* str.strip(): drop leading and trailing whitespace.
Strip(t) ==
    LET inked == {i \in 1..Len(t) : t[i] \notin Whitespace}
    IN  IF inked = {} THEN <<>>
        ELSE LET lo == CHOOSE i \in inked : \A j \in inked : i <= j
                 hi == CHOOSE i \in inked : \A j \in inked : i >= j
             IN  SubSeq(t, lo, hi)

(***************************************************************************)
(* _clean: the normalizer.                                                 *)
(***************************************************************************)
\* text.replace("\r", "\n")
ReplaceCR(t) == [i \in 1..Len(t) |-> IF t[i] = "\r" THEN "\n" ELSE t[i]]

\* re.sub(r"[ \t]+", " ", text): every maximal run of blanks becomes one space.
CollapseBlanks(t) ==
    LET u == [i \in 1..Len(t) |-> IF t[i] \in Blank THEN " " ELSE t[i]]
    IN  Keep(u, {i \in 1..Len(t) : ~(t[i] \in Blank /\ i > 1 /\ t[i - 1] \in Blank)})

\* re.sub(r"\n{2,}", "\n", text): every run of 2+ newlines becomes one newline.
CollapseNewlines(t) ==
    Keep(t, {i \in 1..Len(t) : ~(t[i] = "\n" /\ i > 1 /\ t[i - 1] = "\n")})

\* A normalizer that collapses newline runs before it unifies line endings.
_clean_reordered(text) ==
    Strip(ReplaceCR(CollapseNewlines(CollapseBlanks(text))))

_clean(text) ==
    Strip(CollapseNewlines(CollapseBlanks(ReplaceCR(text))))

(***************************************************************************)
(* _parse_tr_amount: the amount lexer.                                     *)
(*                                                                         *)
(* An argument is a Python value: [type |-> "str", chars |-> t], or a      *)
(* value of another type with its truth value.  A result is                *)
(* [tag |-> "None"], [tag |-> "float", whole |-> w, frac |-> f] (the       *)
(* decimal w.f, w without leading zeros and f without trailing zeros), or  *)
(* [tag |-> "raise", exc |-> e] when the call raises e.                    *)
(***************************************************************************)
PyStr(t) == [type |-> "str", chars |-> t]

PyOther(ty, truth) == [type |-> ty, truthy |-> truth]

PyNone == PyOther("NoneType", FALSE)

\* bool(v): a string is true when it is not empty.
Truthy(v) == IF v.type = "str" THEN v.chars # <<>> ELSE v.truthy

NoValue == [tag |-> "None"]

Raised(e) == [tag |-> "raise", exc |-> e]

AllDigits(t) == \A i \in 1..Len(t) : t[i] \in Digits

DigitValue(c) ==
    CASE c = "0" -> 0 [] c = "1" -> 1 [] c = "2" -> 2 [] c = "3" -> 3 [] c = "4" -> 4
      [] c = "5" -> 5 [] c = "6" -> 6 [] c = "7" -> 7 [] c = "8" -> 8 [] c = "9" -> 9

RECURSIVE StripLeadingZeros(_)
StripLeadingZeros(d) ==
    IF d # <<>> /\ Head(d) = "0" THEN StripLeadingZeros(Tail(d)) ELSE d

RECURSIVE StripTrailingZeros(_)
StripTrailingZeros(d) ==
    IF d # <<>> /\ d[Len(d)] = "0"
    THEN StripTrailingZeros(SubSeq(d, 1, Len(d) - 1))
    ELSE d

Decimal(w, f) ==
    [tag |-> "float", whole |-> StripLeadingZeros(w), frac |-> StripTrailingZeros(f)]

\* float("inf")
Infinity == [tag |-> "inf"]

\* a < b for digit strings of equal length.
DigitsLess(a, b) ==
    \E i \in 1..Min(Len(a), Len(b)) :
        /\ DigitValue(a[i]) < DigitValue(b[i])
        /\ \A k \in 1..(i - 1) : a[k] = b[k]

\* 2^1024 - 2^970, half-way between the largest double and 2^1024: float()
\* of a decimal at or above it is inf.
FloatOverflow ==
    <<"1", "7", "9", "7", "6", "9", "3", "1", "3", "4", "8", "6", "2", "3", "1", "5", "8", "0", "7", "9",
      "3", "7", "2", "8", "9", "7", "1", "4", "0", "5", "3", "0", "3", "4", "1", "5", "0", "7", "9", "9",
      "3", "4", "1", "3", "2", "7", "1", "0", "0", "3", "7", "8", "2", "6", "9", "3", "6", "1", "7", "3",
      "7", "7", "8", "9", "8", "0", "4", "4", "4", "9", "6", "8", "2", "9", "2", "7", "6", "4", "7", "5",
      "0", "9", "4", "6", "6", "4", "9", "0", "1", "7", "9", "7", "7", "5", "8", "7", "2", "0", "7", "0",
      "9", "6", "3", "3", "0", "2", "8", "6", "4", "1", "6", "6", "9", "2", "8", "8", "7", "9", "1", "0",
      "9", "4", "6", "5", "5", "5", "5", "4", "7", "8", "5", "1", "9", "4", "0", "4", "0", "2", "6", "3",
      "0", "6", "5", "7", "4", "8", "8", "6", "7", "1", "5", "0", "5", "8", "2", "0", "6", "8", "1", "9",
      "0", "8", "9", "0", "2", "0", "0", "0", "7", "0", "8", "3", "8", "3", "6", "7", "6", "2", "7", "3",
      "8", "5", "4", "8", "4", "5", "8", "1", "7", "7", "1", "1", "5", "3", "1", "7", "6", "4", "4", "7",
      "5", "7", "3", "0", "2", "7", "0", "0", "6", "9", "8", "5", "5", "5", "7", "1", "3", "6", "6", "9",
      "5", "9", "6", "2", "2", "8", "4", "2", "9", "1", "4", "8", "1", "9", "8", "6", "0", "8", "3", "4",
      "9", "3", "6", "4", "7", "5", "2", "9", "2", "7", "1", "9", "0", "7", "4", "1", "6", "8", "4", "4",
      "4", "3", "6", "5", "5", "1", "0", "7", "0", "4", "3", "4", "2", "7", "1", "1", "5", "5", "9", "6",
      "9", "9", "5", "0", "8", "0", "9", "3", "0", "4", "2", "8", "8", "0", "1", "7", "7", "9", "0", "4",
      "1", "7", "4", "4", "9", "7", "7", "9", "2">>

\* float() of the decimal w.f
FloatOf(w, f) ==
    IF \/ Len(StripLeadingZeros(w)) > Len(FloatOverflow)
       \/ /\ Len(StripLeadingZeros(w)) = Len(FloatOverflow)
          /\ ~DigitsLess(StripLeadingZeros(w), FloatOverflow)
    THEN Infinity
    ELSE Decimal(w, f)

\* float(t) for a string t of digits and points: digits with at most one
\* point and at least one digit; anything else is a ValueError (NoValue here,
\* as both callers turn the error into None or cannot meet it).
PyFloat(t) ==
    LET points == {i \in 1..Len(t) : t[i] = "."}
    IN  IF Cardinality(points) > 1 \/ Cardinality(points) = Len(t)
        THEN NoValue
        ELSE IF points = {} THEN FloatOf(t, <<>>)
        ELSE LET p == CHOOSE i \in points : TRUE
             IN  FloatOf(SubSeq(t, 1, p - 1), SubSeq(t, p + 1, Len(t)))

\* \d{5,9}
DigitRunMin == 5

DigitRunMax == 9

\* A digit-run test that takes runs of four digits too.
IsDigitRun_from4(t) == AllDigits(t) /\ Len(t) >= DigitRunMin - 1 /\ Len(t) <= DigitRunMax

\* A digit-run test whose upper limit is one digit short.
IsDigitRun_upto8(t) == AllDigits(t) /\ Len(t) >= DigitRunMin /\ Len(t) < DigitRunMax

\* re.fullmatch(r"\d{5,9}", s)
IsDigitRun(t) == AllDigits(t) /\ Len(t) >= DigitRunMin /\ Len(t) <= DigitRunMax

\* re.sub(r"[^\d\.,]", "", s)
KeepDigitsAndSeparators(t) ==
    Keep(t, {i \in 1..Len(t) : t[i] \in Digits \cup {".", ","}})

\* The two replacements in the other order: s.replace(",", ".").replace(".", "")
ToPointDecimal_swapped(t) == Keep(t, {i \in 1..Len(t) : t[i] \notin {".", ","}})

\* s.replace(".", "").replace(",", ".")
ToPointDecimal(t) ==
    LET u == Keep(t, {i \in 1..Len(t) : t[i] # "."})
    IN  [i \in 1..Len(u) |-> IF u[i] = "," THEN "." ELSE u[i]]

\* The lexer on a string that is not empty, after s.strip().
ParseStripped(t) ==
    IF IsDigitRun(t)
    THEN PyFloat(SubSeq(t, 1, Len(t) - 2) \o <<".">> \o SubSeq(t, Len(t) - 1, Len(t)))
    ELSE LET c == KeepDigitsAndSeparators(t)
         IN  IF c = <<>> THEN NoValue ELSE PyFloat(ToPointDecimal(c))

\* "if not s" answers None for every false value; s.strip() raises
\* AttributeError on a true value that is not a string (bytes have strip(),
\* and re.fullmatch then raises TypeError on them).
_parse_tr_amount(s) ==
    IF ~Truthy(s) THEN NoValue
    ELSE IF s.type = "bytes" THEN Raised("TypeError")
    ELSE IF s.type # "str" THEN Raised("AttributeError")
    ELSE ParseStripped(Strip(s.chars))

\* int(d) for a string of digits (0 for the empty string).
RECURSIVE IntOf(_)
IntOf(d) ==
    IF d = <<>> THEN 0
    ELSE 10 * IntOf(SubSeq(d, 1, Len(d) - 1)) + DigitValue(d[Len(d)])

(***************************************************************************)
(* Python's re, as far as the patterns of the source use it.               *)
(*                                                                         *)
(* A character outside ASCII is named by its code point ("U0130" is the    *)
(* dotted capital I).  A class is a set of characters or its complement.   *)
(* A pattern is a sequence of items tried with backtracking in re's        *)
(* order; an item is a word boundary or a repetition {min,max} (greedy or  *)
(* lazy; max = -1 is unbounded) of a fixed sequence of classes.  The items *)
(* first..last of a pattern are its capture group 1.                       *)
(***************************************************************************)
LowerAscii ==
    <<"a", "b", "c", "d", "e", "f", "g", "h", "i", "j", "k", "l", "m",
      "n", "o", "p", "q", "r", "s", "t", "u", "v", "w", "x", "y", "z">>

UpperAscii ==
    <<"A", "B", "C", "D", "E", "F", "G", "H", "I", "J", "K", "L", "M",
      "N", "O", "P", "Q", "R", "S", "T", "U", "V", "W", "X", "Y", "Z">>

Range(f) == {f[i] : i \in DOMAIN f}

AsciiLetters == Range(LowerAscii) \cup Range(UpperAscii)

\* Lower-case and upper-case pairs outside ASCII: s-cedilla, o-umlaut,
\* u-umlaut, c-cedilla, g-breve.
TurkishPairs ==
    {<<"U015F", "U015E">>, <<"U00F6", "U00D6">>, <<"U00FC", "U00DC">>,
     <<"U00E7", "U00C7">>, <<"U011F", "U011E">>}

\* The four letters i: i, I, dotted capital I (U0130), dotless i (U0131).
LettersI == {"i", "I", "U0130", "U0131"}

Letters == AsciiLetters \cup LettersI \cup {p[1] : p \in TurkishPairs} \cup {p[2] : p \in TurkishPairs}

\* \w
WordChars == Letters \cup Digits \cup {"_"}

\* The characters a literal c matches under re.IGNORECASE.
CaseVariants(c) ==
    IF c \in LettersI THEN LettersI
    ELSE IF \E i \in 1..26 : c \in {LowerAscii[i], UpperAscii[i]}
    THEN LET i == CHOOSE k \in 1..26 : c \in {LowerAscii[k], UpperAscii[k]}
         IN  {LowerAscii[i], UpperAscii[i]}
    ELSE IF \E p \in TurkishPairs : c \in {p[1], p[2]}
    THEN LET p == CHOOSE q \in TurkishPairs : c \in {q[1], q[2]} IN {p[1], p[2]}
    ELSE {c}

Is(S) == [neg |-> FALSE, set |-> S]

IsNot(S) == [neg |-> TRUE, set |-> S]

InClass(c, cls) == (c \in cls.set) # cls.neg

Rep(cls, lo, hi) == [kind |-> "rep", seq |-> <<cls>>, min |-> lo, max |-> hi, lazy |-> FALSE]

LazyRep(cls, lo, hi) == [kind |-> "rep", seq |-> <<cls>>, min |-> lo, max |-> hi, lazy |-> TRUE]

RepSeq(classes, lo, hi) == [kind |-> "rep", seq |-> classes, min |-> lo, max |-> hi, lazy |-> FALSE]

One(cls) == Rep(cls, 1, 1)

Star(cls) == Rep(cls, 0, -1)

Plus(cls) == Rep(cls, 1, -1)

Opt(cls) == Rep(cls, 0, 1)

\* \b
WordBoundary == [kind |-> "b", seq |-> <<>>, min |-> 0, max |-> 0, lazy |-> FALSE]

\* A literal string, case-sensitive.
Lit(chars) == <<RepSeq([i \in 1..Len(chars) |-> Is({chars[i]})], 1, 1)>>

\* A literal string under re.IGNORECASE.
LitCI(chars) == <<RepSeq([i \in 1..Len(chars) |-> Is(CaseVariants(chars[i]))], 1, 1)>>

Pattern(pre, group, post) ==
    [items |-> pre \o group \o post, first |-> Len(pre) + 1, last |-> Len(pre) + Len(group)]

NoMatch == [ok |-> FALSE, start |-> 0, next |-> 0, gs |-> 0, ge |-> 0]

IsWordAt(t, i) == i >= 1 /\ i <= Len(t) /\ t[i] \in WordChars

\* \b holds before position pos.
AtBoundary(t, pos) == IsWordAt(t, pos - 1) # IsWordAt(t, pos)

\* The fixed class sequence seq matches t at pos.
SeqAt(seq, t, pos) ==
    /\ pos + Len(seq) - 1 <= Len(t)
    /\ \A k \in 1..Len(seq) : InClass(t[pos + k - 1], seq[k])

\* min(S) and max(S) of a set of integers that is not empty.
Least(S) == CHOOSE i \in S : \A k \in S : i <= k

Greatest(S) == CHOOSE i \in S : \A k \in S : i >= k

\* How many times in a row seq matches from pos, up to cap (-1: no cap): the
\* first repetition that fails, or all that the rest of t has room for.
RunCount(seq, t, pos, cap) ==
    LET room == (Len(t) - pos + 1) \div Len(seq)
        most == IF cap < 0 THEN room ELSE Min(cap, room)
        fails == {i \in 0..(most - 1) : ~SeqAt(seq, t, pos + i * Len(seq))}
    IN  IF fails = {} THEN most ELSE Least(fails)

\* The match res of the items j.. at pos, with the group's span recorded
\* when j is where the group opens or where it has just closed.
Marked(p, j, pos, res) ==
    IF ~res.ok THEN res
    ELSE [res EXCEPT !.gs = IF j = p.first THEN pos ELSE @,
                     !.ge = IF j = p.last + 1 THEN pos - 1 ELSE @]

\* Of the tries that match, the one backtracking reaches first: the fewest
\* repetitions when lazy, the most when greedy.
FirstTry(tries, lazy) ==
    LET ok == {x \in tries : x.m.ok}
        counts == {x.n : x \in ok}
    IN  IF ok = {} THEN NoMatch
        ELSE (CHOOSE x \in ok : x.n = IF lazy THEN Least(counts) ELSE Greatest(counts)).m

\* The first match, in re's backtracking order, of the items j.. of pattern
\* p at position pos of t.
RECURSIVE MatchFrom(_, _, _, _)

\* The match of the items after j for every number of repetitions of item j
\* between lo and hi.
Tries(p, t, j, pos, lo, hi) ==
    {[n |-> n, m |-> MatchFrom(p, t, j + 1, pos + n * Len(p.items[j].seq))] : n \in lo..hi}

\* Item j, which can repeat r times at pos.
Backtrack(p, t, j, pos, r) ==
    IF r < p.items[j].min THEN NoMatch
    ELSE FirstTry(Tries(p, t, j, pos, p.items[j].min, r), p.items[j].lazy)

MatchFrom(p, t, j, pos) ==
    Marked(p, j, pos,
           IF j > Len(p.items)
           THEN [ok |-> TRUE, start |-> 0, next |-> pos, gs |-> 0, ge |-> 0]
           ELSE IF p.items[j].kind = "b"
           THEN IF AtBoundary(t, pos) THEN MatchFrom(p, t, j + 1, pos) ELSE NoMatch
           ELSE Backtrack(p, t, j, pos, RunCount(p.items[j].seq, t, pos, p.items[j].max)))

\* res when it is a match, else the alternative alt.
OrElse(res, alt) == IF res.ok THEN res ELSE alt

\* The first alternative of alts (patterns tried in order) that matches at pos.
RECURSIVE MatchAlts(_, _, _, _)
MatchAlts(alts, t, k, pos) ==
    IF k > Len(alts) THEN NoMatch
    ELSE OrElse(MatchFrom(alts[k], t, 1, pos), MatchAlts(alts, t, k + 1, pos))

\* The match res found at pos, with its start recorded.
StartingAt(res, pos) == IF res.ok THEN [res EXCEPT !.start = pos] ELSE res

\* Of the matches found at the positions of a text, the leftmost.
Leftmost(found) ==
    LET ok == {m \in found : m.ok}
    IN  IF ok = {} THEN NoMatch
        ELSE CHOOSE m \in ok : m.start = Least({o.start : o \in ok})

\* re.search from pos on: the match at the leftmost position where one is found.
SearchFrom(alts, t, pos) ==
    Leftmost({StartingAt(MatchAlts(alts, t, 1, q), q) : q \in pos..(Len(t) + 1)})

Search(alts, t) == SearchFrom(alts, t, 1)

\* m.group(1)
Group1(t, m) == SubSeq(t, m.gs, m.ge)

\* re.findall for a pattern with one group: the group of every match, left
\* to right, each search resuming where the last match ended.
RECURSIVE FindAllFrom(_, _, _)
RECURSIVE GroupsFrom(_, _, _)
GroupsFrom(alts, t, m) ==
    IF ~m.ok THEN <<>>
    ELSE <<Group1(t, m)>> \o FindAllFrom(alts, t, IF m.next > m.start THEN m.next ELSE m.next + 1)

FindAllFrom(alts, t, pos) == GroupsFrom(alts, t, SearchFrom(alts, t, pos))

FindAll(alts, t) == FindAllFrom(alts, t, 1)

\* The stripped group 1 of the match m, or None when there is none.
StrippedGroup(t, m) == IF ~m.ok THEN PyNone ELSE PyStr(Strip(Group1(t, m)))

\* _find_first: the stripped group 1 of the first match, or None.
_find_first(alts, t) == StrippedGroup(t, Search(alts, t))

(***************************************************************************)
(* The patterns of the source.                                             *)
(***************************************************************************)
NotWord == IsNot(WordChars)

Spaces == Is(Whitespace)

Digit == Is(Digits)

\* [\d\.\,]
AmountChar == Is(Digits \cup {".", ","})

\* [./-]
DateSep == Is({".", "/", "-"})

\* [: ]
ColonOrSpace == Is({":", " "})

\* [\w\-_/]
CodeChar == Is(WordChars \cup {"-", "/"})

\* [A-Z] under re.IGNORECASE
LetterAZ == Is(AsciiLetters \cup LettersI)

\* [0-9a-fA-F\-]
HexOrDash ==
    Is(Digits \cup {"a", "b", "c", "d", "e", "f", "A", "B", "C", "D", "E", "F", "-"})

\* ([>\-]*\s*[\d\.\,]+)
AmountGroup == <<Star(Is({">", "-"})), Star(Spaces), Plus(AmountChar)>>

\* \s*TL? under re.IGNORECASE
ThenTOptL == <<Star(Spaces), One(Is({"T", "t"})), Opt(Is({"L", "l"}))>>

\* \s*TL under re.IGNORECASE
ThenTL == <<Star(Spaces), One(Is({"T", "t"})), One(Is({"L", "l"}))>>

\* r"\bVKN[: ]*\s*(\d{10,11})\b", re.IGNORECASE
VknPattern ==
    <<Pattern(<<WordBoundary>> \o LitCI(<<"V", "K", "N">>) \o <<Star(ColonOrSpace), Star(Spaces)>>,
              <<Rep(Digit, 10, 11)>>,
              <<WordBoundary>>)>>

\* r"\bTCKN[: ]*\s*(\d{11})\b", re.IGNORECASE
TcknPattern ==
    <<Pattern(<<WordBoundary>> \o LitCI(<<"T", "C", "K", "N">>) \o <<Star(ColonOrSpace), Star(Spaces)>>,
              <<Rep(Digit, 11, 11)>>,
              <<WordBoundary>>)>>

\* r"\bFatura No[: ]*\s*([A-Z]{2,}[\w\-_/]{4,})\b", re.IGNORECASE
InvoiceNoPattern ==
    <<Pattern(<<WordBoundary>> \o LitCI(<<"F", "a", "t", "u", "r", "a", " ", "N", "o">>)
                  \o <<Star(ColonOrSpace), Star(Spaces)>>,
              <<Rep(LetterAZ, 2, -1), Rep(CodeChar, 4, -1)>>,
              <<WordBoundary>>)>>

\* r"\b(GIB[\w\-_/]{6,})\b", re.IGNORECASE
GibPattern ==
    <<Pattern(<<WordBoundary>>,
              LitCI(<<"G", "I", "B">>) \o <<Rep(CodeChar, 6, -1)>>,
              <<WordBoundary>>)>>

\* r"\bETN[: ]*\s*([0-9a-fA-F\-]{20,})\b", re.IGNORECASE
EttnPattern ==
    <<Pattern(<<WordBoundary>> \o LitCI(<<"E", "T", "N">>) \o <<Star(ColonOrSpace), Star(Spaces)>>,
              <<Rep(HexOrDash, 20, -1)>>,
              <<WordBoundary>>)>>

\* \d{2}[./-]\d{2}[./-]\d{4}
DateDMY4 == <<Rep(Digit, 2, 2), One(DateSep), Rep(Digit, 2, 2), One(DateSep), Rep(Digit, 4, 4)>>

\* \d{4}[./-]\d{2}[./-]\d{2}
DateYMD == <<Rep(Digit, 4, 4), One(DateSep), Rep(Digit, 2, 2), One(DateSep), Rep(Digit, 2, 2)>>

\* \d{2}[./-]\d{2}[./-]\d{2}
DateDMY2 == <<Rep(Digit, 2, 2), One(DateSep), Rep(Digit, 2, 2), One(DateSep), Rep(Digit, 2, 2)>>

\* date_patterns of parse_receipt_fields: each shape between word boundaries.
date_patterns ==
    <<[pattern |-> <<Pattern(<<WordBoundary>>, DateDMY4, <<WordBoundary>>)>>, label |-> "dd.mm.yyyy"],
      [pattern |-> <<Pattern(<<WordBoundary>>, DateYMD, <<WordBoundary>>)>>, label |-> "yyyy-mm-dd"],
      [pattern |-> <<Pattern(<<WordBoundary>>, DateDMY2, <<WordBoundary>>)>>, label |-> "dd.mm.yy"]>>

\* date_regexes of _extract_date_by_label: the same shapes without boundaries.
date_regexes ==
    <<<<Pattern(<<>>, DateDMY4, <<>>)>>,
      <<Pattern(<<>>, DateYMD, <<>>)>>,
      <<Pattern(<<>>, DateDMY2, <<>>)>>>>

\* .{0,80}?
LazyGap80 == <<LazyRep(IsNot({"\n"}), 0, 80)>>

\* r"Vergiler\W*Dahil\W*Toplam\W*Tutar.{0,80}?([>\-]*\s*[\d\.\,]+)\s*TL?", re.IGNORECASE
TotalInclPattern ==
    <<Pattern(LitCI(<<"V", "e", "r", "g", "i", "l", "e", "r">>) \o <<Star(NotWord)>>
                  \o LitCI(<<"D", "a", "h", "i", "l">>) \o <<Star(NotWord)>>
                  \o LitCI(<<"T", "o", "p", "l", "a", "m">>) \o <<Star(NotWord)>>
                  \o LitCI(<<"T", "u", "t", "a", "r">>) \o LazyGap80,
              AmountGroup, ThenTOptL)>>

\* r"(?:Genel\W*Toplam|Ödenecek\W*Tutar|TOPLAM).{0,80}?([>\-]*\s*[\d\.\,]+)\s*TL?", re.IGNORECASE
TotalGenericPattern ==
    <<Pattern(LitCI(<<"G", "e", "n", "e", "l">>) \o <<Star(NotWord)>>
                  \o LitCI(<<"T", "o", "p", "l", "a", "m">>) \o LazyGap80,
              AmountGroup, ThenTOptL),
      Pattern(LitCI(<<"U00D6", "d", "e", "n", "e", "c", "e", "k">>) \o <<Star(NotWord)>>
                  \o LitCI(<<"T", "u", "t", "a", "r">>) \o LazyGap80,
              AmountGroup, ThenTOptL),
      Pattern(LitCI(<<"T", "O", "P", "L", "A", "M">>) \o LazyGap80,
              AmountGroup, ThenTOptL)>>

\* \W*[: ]*\W*
LabelGap == <<Star(NotWord), Star(ColonOrSpace), Star(NotWord)>>

\* r"(?:Mal\s*Hizmet\s*Toplam\s*Tutar\w*|Ara\s*Toplam)\W*[: ]*\W*([>\-]*\s*[\d\.\,]+)\s*TL", re.IGNORECASE
SubtotalPattern ==
    <<Pattern(LitCI(<<"M", "a", "l">>) \o <<Star(Spaces)>>
                  \o LitCI(<<"H", "i", "z", "m", "e", "t">>) \o <<Star(Spaces)>>
                  \o LitCI(<<"T", "o", "p", "l", "a", "m">>) \o <<Star(Spaces)>>
                  \o LitCI(<<"T", "u", "t", "a", "r">>) \o <<Star(Is(WordChars))>> \o LabelGap,
              AmountGroup, ThenTL),
      Pattern(LitCI(<<"A", "r", "a">>) \o <<Star(Spaces)>>
                  \o LitCI(<<"T", "o", "p", "l", "a", "m">>) \o LabelGap,
              AmountGroup, ThenTL)>>

\* r"(?:Hesaplanan\s*KDV|KDV)\w*\W*[: ]*\W*([>\-]*\s*[\d\.\,]+)\s*TL?", re.IGNORECASE
VatPattern ==
    <<Pattern(LitCI(<<"H", "e", "s", "a", "p", "l", "a", "n", "a", "n">>) \o <<Star(Spaces)>>
                  \o LitCI(<<"K", "D", "V">>) \o <<Star(Is(WordChars))>> \o LabelGap,
              AmountGroup, ThenTOptL),
      Pattern(LitCI(<<"K", "D", "V">>) \o <<Star(Is(WordChars))>> \o LabelGap,
              AmountGroup, ThenTOptL)>>

\* r"Hesaplanan.{0,20}?KDV.{0,20}?([0-9]{5,12})", re.IGNORECASE
WeirdVatPattern ==
    <<Pattern(LitCI(<<"H", "e", "s", "a", "p", "l", "a", "n", "a", "n">>)
                  \o <<LazyRep(IsNot({"\n"}), 0, 20)>>
                  \o LitCI(<<"K", "D", "V">>) \o <<LazyRep(IsNot({"\n"}), 0, 20)>>,
              <<Rep(Digit, 5, 12)>>,
              <<>>)>>

\* r"([\d\.\,]{2,})\s*TL", re.IGNORECASE
AmountWithTLPattern == <<Pattern(<<>>, <<Rep(AmountChar, 2, -1)>>, ThenTL)>>

\* r"\b(\d{1,3}(?:\.\d{3})*(?:,\d{2})|\d{1,6},\d{2})\b"
GroupedAmountPattern ==
    <<Pattern(<<WordBoundary>>,
              <<Rep(Digit, 1, 3), RepSeq(<<Is({"."}), Digit, Digit, Digit>>, 0, -1),
                RepSeq(<<Is({","}), Digit, Digit>>, 1, 1)>>,
              <<WordBoundary>>),
      Pattern(<<WordBoundary>>,
              <<Rep(Digit, 1, 6), One(Is({","})), Rep(Digit, 2, 2)>>,
              <<WordBoundary>>)>>

(***************************************************************************)
(* Strings and lines.                                                      *)
(***************************************************************************)
\* str.lower() of one character: the dotted capital I becomes "i" followed
\* by a combining dot (U0307).
LowerChar(c) ==
    IF c = "U0130" THEN <<"i", "U0307">>
    ELSE IF \E i \in 1..26 : c = UpperAscii[i]
    THEN <<LowerAscii[CHOOSE i \in 1..26 : c = UpperAscii[i]]>>
    ELSE IF \E q \in TurkishPairs : c = q[2]
    THEN <<(CHOOSE q \in TurkishPairs : c = q[2])[1]>>
    ELSE <<c>>

\* str.lower() of t[lo..hi], by halves.
RECURSIVE LowerFrom(_, _, _)
LowerFrom(t, lo, hi) ==
    IF lo > hi THEN <<>>
    ELSE IF lo = hi THEN LowerChar(t[lo])
    ELSE LowerFrom(t, lo, (lo + hi) \div 2) \o LowerFrom(t, (lo + hi) \div 2 + 1, hi)

Lower(t) == LowerFrom(t, 1, Len(t))

\* k in t
Contains(k, t) ==
    \E i \in 1..(Len(t) - Len(k) + 1) : SubSeq(t, i, i + Len(k) - 1) = k

\* text.split("\n")
RECURSIVE SplitLinesFrom(_, _, _)
SplitLinesFrom(t, lo, i) ==
    IF i > Len(t) THEN <<SubSeq(t, lo, Len(t))>>
    ELSE <<SubSeq(t, lo, i - 1)>>
         \o SplitLinesFrom(t, i + 1,
                Least({k \in (i + 1)..Len(t) : t[k] = "\n"} \cup {Len(t) + 1}))

\* [ln.strip() for ln in text.split("\n") if ln.strip()]
StrippedLines(t) ==
    LET all == SplitLinesFrom(t, 1, Least({k \in 1..Len(t) : t[k] = "\n"} \cup {Len(t) + 1}))
        stripped == [i \in 1..Len(all) |-> Strip(all[i])]
    IN  SelectSeq(stripped, LAMBDA ln : ln # <<>>)

\* s[:n]
Take(s, n) == SubSeq(s, 1, Min(n, Len(s)))

(***************************************************************************)
(* detect_doc_type                                                         *)
(***************************************************************************)
signatures ==
    <<[doc_type |-> "e_fatura",
       keys |-> <<<<"g", "i", "b">>,
                  <<"e", "t", "n">>,
                  <<"v", "e", "r", "g", "i", "l", "e", "r", " ", "d", "a", "h", "i", "l", " ", "t", "o", "p", "l", "a", "m", " ", "t", "u", "t", "a", "r">>,
                  <<"s", "e", "n", "a", "r", "y", "o">>,
                  <<"f", "a", "t", "u", "r", "a", " ", "n", "o">>,
                  <<"v", "k", "n">>,
                  <<"m", "a", "l", " ", "h", "i", "z", "m", "e", "t", " ", "t", "o", "p", "l", "a", "m", " ", "t", "u", "t", "a", "r">>>>],
      [doc_type |-> "pos_slip",
       keys |-> <<<<"p", "o", "s">>,
                  <<"s", "l", "i", "p">>,
                  <<"o", "n", "a", "y", " ", "k", "o", "d", "u">>,
                  <<"p", "r", "o", "v", "i", "z", "y", "o", "n">>,
                  <<"t", "e", "r", "m", "i", "n", "a", "l">>,
                  <<"k", "a", "r", "t", " ", "n", "o">>,
                  <<"i", "U015F", "l", "e", "m", " ", "n", "o">>>>],
      [doc_type |-> "market_fis",
       keys |-> <<<<"f", "i", "U015F">>,
                  <<"f", "i", "s">>,
                  <<"k", "a", "s", "a">>,
                  <<"k", "a", "s", "i", "y", "e", "r">>,
                  <<"t", "o", "p", "l", "a", "m">>,
                  <<"k", "d", "v">>,
                  <<"p", "a", "r", "a", " ", "U00FC", "s", "t", "U00FC">>,
                  <<"p", "a", "r", "a", " ", "u", "s", "t", "u">>,
                  <<"i", "n", "d", "i", "r", "i", "m">>>>],
      [doc_type |-> "restaurant_fis",
       keys |-> <<<<"m", "a", "s", "a">>,
                  <<"a", "d", "i", "s", "y", "o", "n">>,
                  <<"s", "e", "r", "v", "i", "s">>,
                  <<"g", "a", "r", "s", "o", "n">>,
                  <<"k", "u", "v", "e", "r">>>>],
      [doc_type |-> "akaryakit_fis",
       keys |-> <<<<"l", "i", "t", "r", "e">>,
                  <<"p", "o", "m", "p", "a">>,
                  <<"a", "k", "a", "r", "y", "a", "k", "U0131", "t">>,
                  <<"a", "k", "a", "r", "y", "a", "k", "i", "t">>,
                  <<"i", "s", "t", "a", "s", "y", "o", "n">>,
                  <<"n", "o", "z", "z", "l", "e">>>>]>>

RECURSIVE BestSignature_last(_, _, _)
BestSignature_last(t, i, best) ==
    IF i > Len(signatures) THEN best
    ELSE LET hits == SelectSeq(signatures[i].keys, LAMBDA k : Contains(k, t))
         IN  BestSignature_last(t, i + 1,
                 IF Len(hits) >= best.score /\ Len(hits) > 0
                 THEN [type |-> signatures[i].doc_type, score |-> Len(hits), matched |-> hits]
                 ELSE best)

\* The loop over the signatures: a type replaces the best one only with a
\* strictly higher hit count.
RECURSIVE BestSignature(_, _, _)
BestSignature(t, i, best) ==
    IF i > Len(signatures) THEN best
    ELSE LET hits == SelectSeq(signatures[i].keys, LAMBDA k : Contains(k, t))
         IN  BestSignature(t, i + 1,
                 IF Len(hits) > best.score
                 THEN [type |-> signatures[i].doc_type, score |-> Len(hits), matched |-> hits]
                 ELSE best)

detect_doc_type(text) ==
    LET best == BestSignature(Lower(text), 1, [type |-> "unknown", score |-> 0, matched |-> <<>>])
        conf == IF best.score = 0 THEN 30
                ELSE IF best.score = 1 THEN 55
                ELSE IF best.score = 2 THEN 70
                ELSE 90
    IN  [value |-> best.type, confidence |-> conf, source |-> "signature_keywords",
         matched_signatures |-> Take(best.matched, 5)]

(***************************************************************************)
(* Amounts as exact decimals: order, scaling, rounding.                    *)
(***************************************************************************)
PadRight(d, n) == d \o [i \in 1..(n - Len(d)) |-> "0"]

\* a < b for two float results.
AmountLess(a, b) ==
    IF b = Infinity THEN a # Infinity
    ELSE IF a = Infinity THEN FALSE
    ELSE IF a.whole # b.whole
    THEN Len(a.whole) < Len(b.whole)
         \/ (Len(a.whole) = Len(b.whole) /\ DigitsLess(a.whole, b.whole))
    ELSE LET n == Max(Len(a.frac), Len(b.frac))
         IN  DigitsLess(PadRight(a.frac, n), PadRight(b.frac, n))

\* sorted(S) for a set of float results.
RECURSIVE SortedAmounts(_)
SortedAmounts(S) ==
    IF S = {} THEN <<>>
    ELSE LET m == CHOOSE x \in S : \A y \in S \ {x} : AmountLess(x, y)
         IN  <<m>> \o SortedAmounts(S \ {m})

\* max(amounts)
MaxAmount(amounts) ==
    CHOOSE x \in Range(amounts) : \A y \in Range(amounts) : ~AmountLess(x, y)

\* The amount times 10^k as an integer, for k at least its number of decimals.
Scaled(v, k) == IntOf(v.whole \o PadRight(v.frac, k))

RECURSIVE Pow10(_)
Pow10(k) == IF k = 0 THEN 1 ELSE 10 * Pow10(k - 1)

Abs(n) == IF n < 0 THEN -n ELSE n

(***************************************************************************)
(* _extract_amount_candidates                                              *)
(***************************************************************************)
\* The values of the groups that lex to a number, in order.
RECURSIVE ParsedAmounts(_)
ParsedAmounts(groups) ==
    IF groups = <<>> THEN <<>>
    ELSE LET val == _parse_tr_amount(PyStr(Head(groups)))
         IN  (IF val # NoValue THEN <<val>> ELSE <<>>) \o ParsedAmounts(Tail(groups))

\* The candidates in the order found, neither sorted nor deduplicated.
_extract_amount_candidates_found(text) ==
    ParsedAmounts(FindAll(AmountWithTLPattern, text))
        \o ParsedAmounts(FindAll(GroupedAmountPattern, text))

_extract_amount_candidates(text) ==
    LET candidates == ParsedAmounts(FindAll(AmountWithTLPattern, text))
                          \o ParsedAmounts(FindAll(GroupedAmountPattern, text))
    IN  SortedAmounts(Range(candidates))

(***************************************************************************)
(* Lines with keywords, lines with an amount, dates next to a label.       *)
(***************************************************************************)
\* The first max_lines elements of lines that satisfy Hit.
RECURSIVE FirstHits(_, _, _)
FirstHits(lines, Hit(_), max_lines) ==
    IF lines = <<>> THEN <<>>
    ELSE IF Hit(Head(lines))
    THEN IF max_lines <= 1 THEN <<Head(lines)>>
         ELSE <<Head(lines)>> \o FirstHits(Tail(lines), Hit, max_lines - 1)
    ELSE FirstHits(Tail(lines), Hit, max_lines)

_find_lines_containing_keywords(text, keywords, max_lines) ==
    LET kw_lower == [i \in 1..Len(keywords) |-> Lower(keywords[i])]
    IN  FirstHits(StrippedLines(text),
                  LAMBDA ln : \E i \in 1..Len(kw_lower) : Contains(kw_lower[i], Lower(ln)),
                  max_lines)

\* d + 1 for a digit string d.
RECURSIVE Successor(_)
Successor(d) ==
    IF d = <<>> THEN <<"1">>
    ELSE IF d[Len(d)] = "9" THEN Successor(SubSeq(d, 1, Len(d) - 1)) \o <<"0">>
    ELSE SubSeq(d, 1, Len(d) - 1)
         \o <<CHOOSE c \in Digits : DigitValue(c) = DigitValue(d[Len(d)]) + 1>>

\* int(round(amount)) raises OverflowError when the amount is infinite.
RoundRaises(amount) == amount = Infinity

\* str(int(round(amount))) of a finite amount: halves go to the even integer.
RoundedInt(v) ==
    LET odd == v.whole # <<>> /\ DigitValue(v.whole[Len(v.whole)]) % 2 = 1
        up  == /\ v.frac # <<>>
               /\ \/ DigitValue(v.frac[1]) > 5
                  \/ DigitValue(v.frac[1]) = 5 /\ (Len(v.frac) > 1 \/ odd)
        n   == IF up THEN Successor(v.whole) ELSE v.whole
    IN  IF n = <<>> THEN <<"0">> ELSE n

\* f"{n:,}".replace(",", "."): a point before every group of three digits.
RECURSIVE Grouped(_)
Grouped(d) ==
    IF Len(d) <= 3 THEN d
    ELSE Grouped(SubSeq(d, 1, Len(d) - 3)) \o <<".">> \o SubSeq(d, Len(d) - 2, Len(d))

_find_lines_containing_amount(text, amount, max_lines) ==
    LET amt_int == RoundedInt(amount)
        variants == <<amt_int, Grouped(amt_int), Grouped(amt_int) \o <<",", "0", "0">>,
                      amt_int \o <<",", "0", "0">>>>
    IN  FirstHits(StrippedLines(text),
                  LAMBDA ln : \E i \in 1..Len(variants) : Contains(variants[i], ln),
                  max_lines)

label_keywords ==
    <<<<"t", "a", "r", "i", "h">>,
      <<"d", "U00FC", "z", "e", "n", "l", "e", "m", "e", " ", "t", "a", "r", "i", "h", "i">>,
      <<"d", "u", "z", "e", "n", "l", "e", "m", "e", " ", "t", "a", "r", "i", "h", "i">>,
      <<"b", "e", "l", "g", "e", " ", "t", "a", "r", "i", "h", "i">>,
      <<"d", "U00FC", "z", "e", "n", "l", "e", "n", "m", "e", " ", "t", "a", "r", "i", "h", "i">>,
      <<"d", "u", "z", "e", "n", "l", "e", "n", "m", "e", " ", "t", "a", "r", "i", "h", "i">>,
      <<"d", "a", "t", "e">>>>

\* The group of the match m in ln, else the alternative.
DateOr(ln, m, later) == IF m.ok THEN PyStr(Group1(ln, m)) ELSE later

\* The first of date_regexes found in a line, or None.
RECURSIVE FirstDateIn(_, _)
FirstDateIn(ln, i) ==
    IF i > Len(date_regexes) THEN PyNone
    ELSE DateOr(ln, Search(date_regexes[i], ln), FirstDateIn(ln, i + 1))

\* The date of the label line when it has one, else the date of the next
\* line when it has one, else what the later lines give.
NearLabel(same, next, later) ==
    IF same # PyNone THEN same
    ELSE IF next # PyNone THEN next
    ELSE later

\* The loop of _extract_date_by_label from line i on: a line with a label
\* word answers with its own date, else with the date of the next line.
RECURSIVE DateByLabelFrom(_, _)
DateByLabelFrom(lines, i) ==
    IF i > Len(lines) THEN PyNone
    ELSE IF \E k \in 1..Len(label_keywords) : Contains(label_keywords[k], Lower(lines[i]))
    THEN NearLabel(FirstDateIn(lines[i], 1),
                   IF i + 1 <= Len(lines) THEN FirstDateIn(lines[i + 1], 1) ELSE PyNone,
                   DateByLabelFrom(lines, i + 1))
    ELSE DateByLabelFrom(lines, i + 1)

_extract_date_by_label(text) == DateByLabelFrom(StrippedLines(text), 1)

hint_keywords ==
    <<<<"t", "a", "r", "i", "h">>,
      <<"d", "U00FC", "z", "e", "n", "l", "e", "m", "e">>,
      <<"d", "u", "z", "e", "n", "l", "e", "m", "e">>,
      <<"d", "U00FC", "z", "e", "n", "l", "e", "n", "m", "e">>,
      <<"d", "u", "z", "e", "n", "l", "e", "n", "m", "e">>,
      <<"b", "e", "l", "g", "e">>,
      <<"d", "a", "t", "e">>>>

(***************************************************************************)
(* add_warning, _field, _normalize_weird_ocr_amount_digits                 *)
(***************************************************************************)
NoMeta == <<>>

\* The warning put in front of the list.
add_warning_first(warnings, code, severity, message, meta) ==
    <<IF meta = NoMeta
      THEN [code |-> code, severity |-> severity, message |-> message]
      ELSE [code |-> code, severity |-> severity, message |-> message, meta |-> meta]>>
        \o warnings

\* Appends the warning; "meta" is a key only when a meta was given.
add_warning(warnings, code, severity, message, meta) ==
    Append(warnings,
           IF meta = NoMeta
           THEN [code |-> code, severity |-> severity, message |-> message]
           ELSE [code |-> code, severity |-> severity, message |-> message, meta |-> meta])

\* round(float(confidence), 2) of a confidence in hundredths is itself.
_field(value, confidence, source) ==
    [value |-> value, confidence |-> confidence, source |-> source]

\* The noise suffixes of an 8-digit run.
NoiseSuffixes == {<<"7", "1">>, <<"1", "1">>, <<"0", "1">>, <<"9", "1">>}

_normalize_weird_ocr_amount_digits(s) ==
    IF ~Truthy(s) THEN PyNone
    ELSE LET d == Keep(s.chars, {i \in 1..Len(s.chars) : s.chars[i] \in Digits})
             c == IF Len(d) > 9 THEN SubSeq(d, 1, 9) ELSE d
         IN  IF d = <<>> THEN PyNone
             ELSE IF Len(c) = 8 /\ SubSeq(c, 7, 8) \in NoiseSuffixes
             THEN PyStr(SubSeq(c, 1, 6))
             ELSE PyStr(c)

(***************************************************************************)
(* parse_receipt_fields, section by section.  Each section maps the        *)
(* fields and warnings it finds to the ones it leaves.                     *)
(***************************************************************************)
\* fields[key] = value
SetField(fields, key, value) == (key :> value) @@ fields

HasField(fields, key) == key \in DOMAIN fields

Codes(warnings) == [i \in 1..Len(warnings) |-> warnings[i].code]

HasWarning(warnings, code) == \E i \in 1..Len(warnings) : warnings[i].code = code

\* doc type, given the detected type dt
DocTypeFrom(dt, fields, warnings) ==
    [fields |-> SetField(fields, "doc_type", dt),
     warnings |->
        IF dt.value = "unknown"
        THEN add_warning(warnings, "doc_type_unknown", "medium",
                         "Belge tipi tespit edilemedi (unknown)",
                         [matched_signatures |-> dt.matched_signatures])
        ELSE warnings]

DocTypeSection(text, fields, warnings) == DocTypeFrom(detect_doc_type(text), fields, warnings)

\* Identity with every matched personal number accepted.
IdentityFrom_anytckn(vkn, tckn, fields, warnings) ==
    [fields |->
        (IF Truthy(tckn)
         THEN SetField(IF Truthy(vkn)
                       THEN SetField(fields, "vkn", _field(vkn.chars, 95, "keyword_vkn"))
                       ELSE fields,
                       "tckn", _field(tckn.chars, 70, "keyword_tckn"))
         ELSE IF Truthy(vkn)
         THEN SetField(fields, "vkn", _field(vkn.chars, 95, "keyword_vkn"))
         ELSE fields),
     warnings |-> warnings]

\* Identity, given what the two patterns found
IdentityFrom(vkn, tckn, fields, warnings) ==
    LET f1 == IF Truthy(vkn)
              THEN SetField(fields, "vkn", _field(vkn.chars, 95, "keyword_vkn"))
              ELSE fields
    IN  IF Truthy(tckn) /\ Head(tckn.chars) # "0"
        THEN [fields |-> SetField(f1, "tckn", _field(tckn.chars, 70, "keyword_tckn")),
              warnings |-> warnings]
        ELSE IF Truthy(tckn)
        THEN [fields |-> f1,
              warnings |-> add_warning(warnings, "tckn_suspect", "medium",
                                       "TCKN supheli gorunuyor", [tckn |-> tckn.chars])]
        ELSE [fields |-> f1, warnings |-> warnings]

IdentitySection(text, fields, warnings) ==
    IdentityFrom(_find_first(VknPattern, text), _find_first(TcknPattern, text), fields, warnings)

\* Invoice No, given what the two patterns found
InvoiceNoFrom(invoice_no, gib, fields) ==
    IF Truthy(invoice_no)
    THEN SetField(fields, "invoice_no", _field(invoice_no.chars, 95, "keyword_invoice_no"))
    ELSE IF Truthy(gib)
    THEN SetField(fields, "invoice_no", _field(gib.chars, 85, "fallback_gib"))
    ELSE fields

InvoiceNoSection(text, fields) ==
    InvoiceNoFrom(_find_first(InvoiceNoPattern, text), _find_first(GibPattern, text), fields)

\* ETTN / ETN, given what the pattern found
EttnFrom(ettn, fields) ==
    IF Truthy(ettn)
    THEN SetField(fields, "ettn", _field(ettn.chars, 95, "keyword_ettn"))
    ELSE fields

EttnSection(text, fields) == EttnFrom(_find_first(EttnPattern, text), fields)

\* One turn of the global scan: the date a pattern found under its label,
\* else what the later patterns give.
ScanTurn(date_str, label, later) ==
    IF Truthy(date_str)
    THEN [date_str |-> date_str, date_source |-> "pattern_date_" \o label]
    ELSE later

\* 1) global scan: the first pattern of date_patterns, from i on, that matches.
RECURSIVE GlobalDateScan(_, _, _)
GlobalDateScan(patterns, text, i) ==
    IF i > Len(patterns) THEN [date_str |-> PyNone, date_source |-> "None"]
    ELSE ScanTurn(_find_first(patterns[i].pattern, text), patterns[i].label,
                  GlobalDateScan(patterns, text, i + 1))

\* Date with the scan by label tried before the global scan.
DateFrom_labelfirst(scan, by_label, text, fields, warnings) ==
    LET found == IF Truthy(by_label)
                 THEN [date_str |-> by_label, date_source |-> "label_based_date"]
                 ELSE scan
    IN  IF Truthy(found.date_str)
        THEN [fields |-> SetField(fields, "date", _field(found.date_str.chars, 75, found.date_source)),
              warnings |-> warnings]
        ELSE [fields |-> fields,
              warnings |->
                 add_warning(warnings, "date_not_found", "high", "Belge tarihi bulunamadi",
                     [tried_patterns |-> [i \in 1..Len(date_patterns) |-> date_patterns[i].label],
                      hint_lines |-> _find_lines_containing_keywords(text, hint_keywords, 5)])]

\* Date, given the result of the global scan and of the scan by label
DateFrom(scan, by_label, text, fields, warnings) ==
    LET found == IF Truthy(scan.date_str) THEN scan
                 ELSE IF Truthy(by_label)
                 THEN [date_str |-> by_label, date_source |-> "label_based_date"]
                 ELSE [date_str |-> by_label, date_source |-> "None"]
    IN  IF Truthy(found.date_str)
        THEN [fields |-> SetField(fields, "date", _field(found.date_str.chars, 75, found.date_source)),
              warnings |-> warnings]
        ELSE [fields |-> fields,
              warnings |->
                 add_warning(warnings, "date_not_found", "high", "Belge tarihi bulunamadi",
                     [tried_patterns |-> [i \in 1..Len(date_patterns) |-> date_patterns[i].label],
                      hint_lines |-> _find_lines_containing_keywords(text, hint_keywords, 5)])]

DateSection(text, fields, warnings) ==
    DateFrom(GlobalDateScan(date_patterns, text, 1), _extract_date_by_label(text),
             text, fields, warnings)

\* a or b
PyOr(a, b) == IF Truthy(a) THEN a ELSE b

\* _parse_tr_amount(s) if s else None
ParseIfAny(s) == IF Truthy(s) THEN _parse_tr_amount(s) ELSE NoValue

\* The fallback of the total on the largest candidate.  The field is set
\* first; the evidence lines are computed for the warning's meta, and
\* int(round(amount)) of _find_lines_containing_amount raises OverflowError
\* on an infinite amount, which nothing catches.
TotalFallback(selected_total, text, amounts, fields, warnings) ==
    IF RoundRaises(selected_total)
    THEN [fields |-> SetField(fields, "total_including_vat",
                              _field(selected_total, 55, "heuristic_max_amount")),
          warnings |-> warnings,
          raised |-> "OverflowError"]
    ELSE [fields |-> SetField(fields, "total_including_vat",
                              _field(selected_total, 55, "heuristic_max_amount")),
          warnings |->
             add_warning(warnings, "total_fallback_max_amount", "medium",
                 "Toplam tutar max(amounts) ile secildi",
                 [amount_candidates |-> amounts,
                  selected_total |-> selected_total,
                  evidence_lines |-> _find_lines_containing_amount(text, selected_total, 3)])]

\* TOTAL (including VAT) with the fallback on the first candidate, the
\* smallest, in place of the largest.
TotalFrom_first(total_incl, text, amounts, fields, warnings) ==
    IF total_incl # NoValue
    THEN [fields |-> SetField(fields, "total_including_vat",
                              _field(total_incl, 90, "keyword_total")),
          warnings |-> warnings]
    ELSE IF amounts # <<>>
    THEN TotalFallback(amounts[1], text, amounts, fields, warnings)
    ELSE [fields |-> fields,
          warnings |-> add_warning(warnings, "total_not_found", "high",
                                   "Toplam tutar bulunamadi", NoMeta)]

\* TOTAL (including VAT), given the amount total_incl of the labelled total
TotalFrom(total_incl, text, amounts, fields, warnings) ==
    IF total_incl # NoValue
    THEN [fields |-> SetField(fields, "total_including_vat",
                              _field(total_incl, 90, "keyword_total")),
          warnings |-> warnings]
    ELSE IF amounts # <<>>
    THEN TotalFallback(MaxAmount(amounts), text, amounts, fields, warnings)
    ELSE [fields |-> fields,
          warnings |-> add_warning(warnings, "total_not_found", "high",
                                   "Toplam tutar bulunamadi", NoMeta)]

TotalSection(text, amounts, fields, warnings) ==
    TotalFrom(ParseIfAny(PyOr(_find_first(TotalInclPattern, text),
                              _find_first(TotalGenericPattern, text))),
              text, amounts, fields, warnings)

\* SUBTOTAL (excluding VAT), given the amount of the labelled subtotal
SubtotalFrom(subtotal, fields) ==
    IF subtotal # NoValue
    THEN SetField(fields, "total_excluding_vat", _field(subtotal, 85, "keyword_subtotal"))
    ELSE fields

SubtotalSection(text, fields) ==
    SubtotalFrom(ParseIfAny(_find_first(SubtotalPattern, text)), fields)

\* The VAT amount: the labelled one, else the one of the digit run that
\* follows "Hesaplanan ... KDV".
VatAmount(labelled, weird_digits) ==
    IF labelled # NoValue THEN labelled ELSE ParseIfAny(weird_digits)

\* VAT AMOUNT, given the amount found
VatFrom(vat_amount, fields) ==
    IF vat_amount # NoValue
    THEN SetField(fields, "vat_amount", _field(vat_amount, 80, "keyword_vat"))
    ELSE fields

VatSection(text, fields) ==
    VatFrom(VatAmount(ParseIfAny(_find_first(VatPattern, text)),
                      _normalize_weird_ocr_amount_digits(_find_first(WeirdVatPattern, text))),
            fields)

\* abs((subtotal_v + vat_v) - total_v) <= max(1.0, total_v * 0.01).  The
\* three amounts are scaled to integers and compared exactly (an infinite
\* total makes both sides inf; an infinite subtotal or VAT amount makes the
\* left side inf or nan against a finite or infinite right side).  The floats of
\* the code carry a representation error far below any difference of two
\* unequal sides; when the two sides are exactly equal that error decides,
\* unless the three amounts are whole numbers, which floats hold exactly.
WithinTolerance(subtotal_v, vat_v, total_v) ==
    IF subtotal_v = Infinity \/ vat_v = Infinity THEN {FALSE}
    ELSE IF total_v = Infinity THEN {TRUE}
    ELSE
    LET k == Max(Len(subtotal_v.frac), Max(Len(vat_v.frac), Len(total_v.frac)))
        diff == 100 * Abs(Scaled(subtotal_v, k) + Scaled(vat_v, k) - Scaled(total_v, k))
        tolerance == Max(100 * Pow10(k), Scaled(total_v, k))
    IN  IF diff < tolerance THEN {TRUE}
        ELSE IF diff > tolerance THEN {FALSE}
        ELSE IF k = 0 THEN {TRUE}
        ELSE {TRUE, FALSE}

\* min(1.0, confidence + delta) on the field key
Boost(fields, key, delta) ==
    [fields EXCEPT ![key].confidence = Min(100, @ + delta)]

\* The two branches of the consistency check
ConsistencyBranch(within, fields, warnings) ==
    IF within
    THEN [fields |-> Boost(Boost(Boost(fields, "total_including_vat", 15),
                                 "total_excluding_vat", 10),
                           "vat_amount", 10),
          warnings |-> warnings]
    ELSE [fields |-> fields,
          warnings |->
             add_warning(warnings, "amounts_inconsistent", "high",
                 "Ara toplam + KDV toplami genel toplam ile uyusmuyor",
                 [subtotal |-> fields["total_excluding_vat"].value,
                  vat |-> fields["vat_amount"].value,
                  total |-> fields["total_including_vat"].value])]

\* Consistency check: the results it can leave
ConsistencySection(fields, warnings) ==
    IF /\ HasField(fields, "total_excluding_vat")
       /\ HasField(fields, "vat_amount")
       /\ HasField(fields, "total_including_vat")
    THEN {ConsistencyBranch(within, fields, warnings) :
             within \in WithinTolerance(fields["total_excluding_vat"].value,
                                        fields["vat_amount"].value,
                                        fields["total_including_vat"].value)}
    ELSE {[fields |-> fields, warnings |-> warnings]}

\* The weights of the overall confidence, in hundredths.
TotalWeight == 55

DateWeight == 20

VknWeight == 25

\* The penalty of one warning, in ten-thousandths.
HighPenalty == 2000

MediumPenalty == 1000

LowPenalty == 500

\* The confidence of the field key times its weight, 0 when it is absent.
Weighted(fields, key, weight) ==
    IF HasField(fields, key) THEN fields[key].confidence * weight ELSE 0

\* score: total * 0.55 + date * 0.20 + vkn * 0.25, in ten-thousandths.
WeightedScore(fields) ==
    Weighted(fields, "total_including_vat", TotalWeight)
    + Weighted(fields, "date", DateWeight)
    + Weighted(fields, "vkn", VknWeight)

\* The penalties with a high warning counted as a medium one.
RECURSIVE Penalty_medium(_)
Penalty_medium(warnings) ==
    IF warnings = <<>> THEN 0
    ELSE (IF Head(warnings).severity \in {"high", "medium"} THEN MediumPenalty
          ELSE IF Head(warnings).severity = "low" THEN LowPenalty
          ELSE 0)
         + Penalty_medium(Tail(warnings))

RECURSIVE Penalty(_)
Penalty(warnings) ==
    IF warnings = <<>> THEN 0
    ELSE (IF Head(warnings).severity = "high" THEN HighPenalty
          ELSE IF Head(warnings).severity = "medium" THEN MediumPenalty
          ELSE IF Head(warnings).severity = "low" THEN LowPenalty
          ELSE 0)
         + Penalty(Tail(warnings))

\* max(0.0, score - penalty), in ten-thousandths.
FlooredScore(fields, warnings) == Max(0, WeightedScore(fields) - Penalty(warnings))

\* round(score, 2) in hundredths.  The float the code rounds differs from the
\* exact score by a representation error far below one ten-thousandth, so a
\* score that is not half-way rounds to the nearest hundredth; a score that
\* is exactly half-way rounds up or down as that error falls, and either
\* result is possible here.
Round2(score) ==
    IF score % 100 = 50 THEN {score \div 100, score \div 100 + 1}
    ELSE IF score % 100 > 50 THEN {score \div 100 + 1}
    ELSE {score \div 100}

\* The threshold of overall_confidence_low, in hundredths.
LowConfidenceThreshold == 60

(***************************************************************************)
(* AmountLexer runs: one call of _parse_tr_amount on one argument.         *)
(***************************************************************************)
MaxAmountLen == 4

MaxDigitRun == 10

MaxGroups == 2

AmountAlphabet == {"0", "7", ".", ",", " ", "x", "-"}

DigitAlphabet == {"0", "1", "5"}

GroupHeads == {<<"0">>, <<"6">>, <<"5">>, <<"1", "2">>, <<"0", "5", "7">>, <<"9", "9", "9">>}

GroupBodies ==
    {<<".", "0", "0", "0">>, <<".", "9", "0", "0">>, <<".", "7", "5", "0">>,
     <<".", "0", "1", "2">>}

GroupTails ==
    {<<",", "0", "0">>, <<",", "5", "0">>, <<",", "0", "5">>, <<",", "9", "9">>}

RECURSIVE GroupRuns(_)
GroupRuns(n) ==
    IF n = 0 THEN {<<>>}
    ELSE LET S == GroupRuns(n - 1)
         IN  S \cup {s \o g : s \in {u \in S : Len(u) = 4 * (n - 1)}, g \in GroupBodies}

\* Strings in grouped-decimal shape, e.g. "6.900,00" and "5.750,50".
GroupedDecimals ==
    {h \o g \o t : h \in GroupHeads, g \in GroupRuns(MaxGroups), t \in GroupTails}

NonStrings ==
    {PyNone} \cup {PyOther(ty, b) : ty \in {"int", "float", "list", "bytes"}, b \in BOOLEAN}

\* The tokens of the docstring and of the specification's examples.
ExampleTokens ==
    {<<"6", "9", "0", "0">>, <<"5", "7", "5", "0">>, <<"1", "1", "5", "0", "0", "0">>,
     <<"6", ".", "9", "0", "0", ",", "0", "0">>}

AmountInputs ==
    NonStrings \cup
    {PyStr(t) : t \in StringsUpTo(AmountAlphabet, MaxAmountLen)
                      \cup StringsUpTo(DigitAlphabet, MaxDigitRun)
                      \cup GroupedDecimals
                      \cup ExampleTokens}

LexerIdle == a_in = PyNone /\ a_out = NoValue /\ apc = "idle"

InitAmount ==
    /\ a_in \in AmountInputs
    /\ a_out = NoValue
    /\ apc = "start"
    /\ NormalizerIdle
    /\ ParserIdle
    /\ CallersIdle
    /\ WorkerIdle

ParseAmount ==
    /\ apc = "start"
    /\ a_out' = _parse_tr_amount(a_in)
    /\ apc' = "done"
    /\ UNCHANGED a_in
    /\ UNCHANGED normalizer_vars
    /\ UNCHANGED parser_vars
    /\ UNCHANGED <<caller_vars, worker_vars>>

NextAmount == ParseAmount

SpecAmount == InitAmount /\ [][NextAmount]_vars

(***************************************************************************)
(* Properties of the amount lexer.                                         *)
(***************************************************************************)
\* A float result with at most two decimals, in hundredths.
Cents(v) ==
    100 * IntOf(v.whole)
    + (IF Len(v.frac) = 0 THEN 0
       ELSE IF Len(v.frac) = 1 THEN 10 * IntOf(v.frac)
       ELSE IntOf(v.frac))

\* 1-3 digits, then groups of "." and 3 digits.
IsGroupedWhole(w) ==
    \E h \in 1..3 :
        /\ Len(w) >= h
        /\ (Len(w) - h) % 4 = 0
        /\ \A i \in 1..Len(w) :
              IF i > h /\ (i - h) % 4 = 1 THEN w[i] = "." ELSE w[i] \in Digits

\* Turkish grouped-decimal shape: a grouped whole part, "," and 2 digits.
IsGroupedDecimal(t) ==
    /\ Len(t) >= 4
    /\ t[Len(t) - 2] = ","
    /\ t[Len(t) - 1] \in Digits
    /\ t[Len(t)] \in Digits
    /\ IsGroupedWhole(SubSeq(t, 1, Len(t) - 3))

\* C7: for every digit-only string s of 5 to 9 digits the lexer returns
\* int(s[:-2]) + int(s[-2:])/100: the last two digits are the cents.
C7_DigitRunCents ==
    (apc = "done" /\ a_in.type = "str" /\ AllDigits(a_in.chars)
        /\ Len(a_in.chars) >= 5 /\ Len(a_in.chars) <= 9)
    => /\ a_out.tag = "float"
       /\ Len(a_out.frac) <= 2
       /\ Len(a_out.whole) <= Len(a_in.chars) - 2
       /\ Cents(a_out) =
             100 * IntOf(SubSeq(a_in.chars, 1, Len(a_in.chars) - 2))
             + IntOf(SubSeq(a_in.chars, Len(a_in.chars) - 1, Len(a_in.chars)))

\* "115000" was lexed to 1150.00.
C7_Witness ==
    /\ apc = "done"
    /\ a_in = PyStr(<<"1", "1", "5", "0", "0", "0">>)
    /\ a_out = [tag |-> "float", whole |-> <<"1", "1", "5", "0">>, frac |-> <<>>]

\* C8: a string in grouped-decimal shape lexes to the amount whose whole part
\* is the digits before the comma without the periods and whose fractional
\* part is the two digits after the comma.
C8_GroupedDecimal ==
    (apc = "done" /\ a_in.type = "str" /\ IsGroupedDecimal(a_in.chars))
    => LET t == a_in.chars
           w == SubSeq(t, 1, Len(t) - 3)
       IN  /\ a_out.tag = "float"
           /\ a_out.whole = StripLeadingZeros(Keep(w, {i \in 1..Len(w) : w[i] \in Digits}))
           /\ a_out.frac = StripTrailingZeros(SubSeq(t, Len(t) - 1, Len(t)))

\* "5.750,50" was lexed to 5750.50.
C8_Witness ==
    /\ apc = "done"
    /\ a_in = PyStr(<<"5", ".", "7", "5", "0", ",", "5", "0">>)
    /\ a_out = [tag |-> "float", whole |-> <<"5", "7", "5", "0">>, frac |-> <<"5">>]

\* C9: the lexer never raises: it returns a number or None, and None for an
\* empty input, for an input without digits, for an input whose cleaned form
\* is no number (several commas) and for an input that is not a string.
C9_NeverRaises ==
    apc = "done"
    => /\ a_out.tag \in {"None", "float"}
       /\ a_in.type # "str" => a_out = NoValue
       /\ a_in.type = "str" =>
             LET t == a_in.chars
                 commas == {i \in 1..Len(t) : t[i] = ","}
             IN  /\ t = <<>> => a_out = NoValue
                 /\ (\A i \in 1..Len(t) : t[i] \notin Digits) => a_out = NoValue
                 /\ Cardinality(commas) >= 2 => a_out = NoValue

(***************************************************************************)
(* Normalizer runs: x, then _clean(x), then _clean(_clean(x)).             *)
(***************************************************************************)
MaxCleanLen == 6

CleanAlphabet == {"a", "B", " ", "\t", "\r", "\n"}

InitClean ==
    /\ nx \in StringsUpTo(CleanAlphabet, MaxCleanLen)
    /\ n1 = <<>>
    /\ n2 = <<>>
    /\ npc = "start"
    /\ LexerIdle
    /\ ParserIdle
    /\ CallersIdle
    /\ WorkerIdle

CleanOnce ==
    /\ npc = "start"
    /\ n1' = _clean(nx)
    /\ npc' = "once"
    /\ UNCHANGED <<nx, n2>>
    /\ UNCHANGED lexer_vars
    /\ UNCHANGED parser_vars
    /\ UNCHANGED <<caller_vars, worker_vars>>

CleanTwice ==
    /\ npc = "once"
    /\ n2' = _clean(n1)
    /\ npc' = "twice"
    /\ UNCHANGED <<nx, n1>>
    /\ UNCHANGED lexer_vars
    /\ UNCHANGED parser_vars
    /\ UNCHANGED <<caller_vars, worker_vars>>

NextClean == CleanOnce \/ CleanTwice

SpecClean == InitClean /\ [][NextClean]_vars

\* C10: the normalizer is idempotent: _clean(_clean(x)) = _clean(x) for every
\* string x over letters, space, tab, carriage return and newline.
C10_CleanIdempotent == npc = "twice" => n2 = n1

\* A run whose input holds every kind of noise and whose first pass changed it.
C10_Witness ==
    /\ npc = "twice"
    /\ n1 # nx
    /\ n1 # <<>>
    /\ \E i \in 1..Len(nx) : nx[i] = "\r"
    /\ \E i \in 1..Len(nx) : nx[i] = "\t"
    /\ \E i \in 2..Len(nx) : nx[i] = "\n" /\ nx[i - 1] \in {"\n", "\r"}
(***************************************************************************)
(* parse_receipt_fields runs: one call on one raw text, section by         *)
(* section.                                                                *)
(***************************************************************************)
MaxLines == 2

Lines ==
    <<<<"T", "O", "P", "L", "A", "M", " ", "1", ".", "1", "8", "0", ",", "0", "0", " ", "T", "L">>,  \* a labelled total
      <<"A", "r", "a", " ", "T", "o", "p", "l", "a", "m", ":", " ", "1", ".", "0", "0", "0", ",", "0", "0", " ", "T", "L">>,  \* a labelled subtotal (its "Toplam" is a total label too)
      <<"K", "D", "V", " ", "1", "8", "0", ",", "0", "0", " ", "T", "L">>,  \* a labelled VAT amount
      <<"0", "5", ".", "0", "1", ".", "2", "0", "2", "6">>,  \* a date dd.mm.yyyy
      <<"2", "0", "2", "6", "-", "0", "1", "-", "0", "5">>,  \* a date yyyy-mm-dd
      <<"T", "a", "r", "i", "h", "0", "5", ".", "0", "1", ".", "2", "6">>,  \* a date dd.mm.yy glued to its label
      <<"V", "K", "N", ":", " ", "1", "2", "3", "4", "5", "6", "7", "8", "9", "0">>,  \* a tax number
      <<"T", "C", "K", "N", ":", " ", "1", "2", "3", "4", "5", "6", "7", "8", "9", "0", "1">>,  \* a personal number
      <<"2", "5", "0", ",", "0", "0">>,  \* an amount without a label
      <<"T", "O", "P", "L", "A", "M", " ", ".", ".", ".", ".", ".", " ", "T", "L">>>>  \* a total label followed by a dotted leader

\* Whole documents, each a sequence of lines.
Documents ==
      \* subtotal + VAT = total
    { <<<<"T", "O", "P", "L", "A", "M", " ", "1", ".", "1", "8", "0", ",", "0", "0", " ", "T", "L">>,
        <<"A", "r", "a", " ", "T", "o", "p", "l", "a", "m", ":", " ", "1", ".", "0", "0", "0", ",", "0", "0", " ", "T", "L">>,
        <<"K", "D", "V", " ", "1", "8", "0", ",", "0", "0", " ", "T", "L">>>>,
      \* subtotal + VAT far from the total
      <<<<"G", "e", "n", "e", "l", " ", "T", "o", "p", "l", "a", "m", " ", "1", ".", "5", "0", "0", ",", "0", "0", " ", "T", "L">>,
        <<"A", "r", "a", " ", "T", "o", "p", "l", "a", "m", ":", " ", "1", ".", "0", "0", "0", ",", "0", "0", " ", "T", "L">>,
        <<"K", "D", "V", " ", "1", "8", "0", ",", "0", "0", " ", "T", "L">>>>,
      \* subtotal + VAT exactly 1.00 above the total
      <<<<"T", "O", "P", "L", "A", "M", " ", "8", "3", ",", "5", "8", " ", "T", "L">>,
        <<"A", "r", "a", " ", "T", "o", "p", "l", "a", "m", " ", "3", "8", ",", "6", "3", " ", "T", "L">>,
        <<"K", "D", "V", " ", "4", "5", ",", "9", "5", " ", "T", "L">>>>,
      \* whole amounts, subtotal + VAT exactly 1 above the total
      <<<<"T", "O", "P", "L", "A", "M", " ", "1", "1", "8", "0", " ", "T", "L">>,
        <<"A", "r", "a", " ", "T", "o", "p", "l", "a", "m", " ", "1", "0", "0", "0", " ", "T", "L">>,
        <<"K", "D", "V", " ", "1", "8", "1", " ", "T", "L">>>>,
      \* every scored field, consistent amounts
      <<<<"T", "O", "P", "L", "A", "M", " ", "1", ".", "1", "8", "0", ",", "0", "0", " ", "T", "L">>,
        <<"A", "r", "a", " ", "T", "o", "p", "l", "a", "m", ":", " ", "1", ".", "0", "0", "0", ",", "0", "0", " ", "T", "L">>,
        <<"K", "D", "V", " ", "1", "8", "0", ",", "0", "0", " ", "T", "L">>,
        <<"0", "5", ".", "0", "1", ".", "2", "0", "2", "6">>,
        <<"V", "K", "N", ":", " ", "1", "2", "3", "4", "5", "6", "7", "8", "9", "0">>>>,
      \* total, date and tax number
      <<<<"K", "D", "V", " ", "D", "A", "H", "U0130", "L", " ", "T", "O", "P", "L", "A", "M", " ", "T", "U", "T", "A", "R", " ", "1", ".", "1", "8", "0", ",", "0", "0", " ", "T", "L">>,
        <<"0", "5", ".", "0", "1", ".", "2", "0", "2", "6">>,
        <<"V", "K", "N", ":", " ", "1", "2", "3", "4", "5", "6", "7", "8", "9", "0">>>>,
      \* total, date and personal number
      <<<<"T", "O", "P", "L", "A", "M", " ", "1", ".", "1", "8", "0", ",", "0", "0", " ", "T", "L">>,
        <<"0", "5", ".", "0", "1", ".", "2", "0", "2", "6">>,
        <<"T", "C", "K", "N", ":", " ", "1", "2", "3", "4", "5", "6", "7", "8", "9", "0", "1">>>>,
      \* a personal number with a leading zero
      <<<<"T", "C", "K", "N", " ", "0", "1", "2", "3", "4", "5", "6", "7", "8", "9", "0">>>>,
      \* a date label, the date glued to a letter on the next line
      <<<<"B", "e", "l", "g", "e", " ", "T", "a", "r", "i", "h", "i">>,
        <<"A", "0", "5", "/", "0", "1", "/", "2", "0", "2", "6">>>>,
      \* six lines with a date keyword and no date
      <<<<"t", "a", "r", "i", "h">>,
        <<"T", "a", "r", "i", "h", ":">>,
        <<"b", "e", "l", "g", "e">>,
        <<"D", "A", "T", "E">>,
        <<"d", "u", "z", "e", "n", "l", "e", "m", "e">>,
        <<"B", "e", "l", "g", "e", " ", "T", "a", "r", "i", "h", "i">>>>,
      \* two document types with one keyword each, noisy whitespace
      <<<<"K", "A", "S", "A", " ", "1", " ", " ", "M", "A", "S", "A", "\t", "2", "\r">>>>,
      \* a total label whose amount is not followed by T
      <<<<"U00D6", "d", "e", "n", "e", "c", "e", "k", " ", "T", "u", "t", "a", "r", " ", "9", "9", ",", "5", "0">>>>,
      \* a VAT digit run with a noise suffix
      <<<<"H", "e", "s", "a", "p", "l", "a", "n", "a", "n", " ", "K", "D", "V", " ", "1", "1", "5", "0", "0", "0", "7", "1">>>>,
      \* consistent amounts, a date and one medium warning
      <<<<"T", "O", "P", "L", "A", "M", " ", "1", ".", "1", "8", "0", ",", "0", "0", " ", "T", "L">>,
        <<"A", "r", "a", " ", "T", "o", "p", "l", "a", "m", ":", " ", "1", ".", "0", "0", "0", ",", "0", "0", " ", "T", "L">>,
        <<"K", "D", "V", " ", "1", "8", "0", ",", "0", "0", " ", "T", "L">>,
        <<"0", "5", ".", "0", "1", ".", "2", "0", "2", "6">>,
        <<"T", "C", "K", "N", " ", "0", "1", "2", "3", "4", "5", "6", "7", "8", "9", "0">>>>,
      \* a date, a personal number and an amount without a label
      <<<<"0", "5", ".", "0", "1", ".", "2", "0", "2", "6">>,
        <<"T", "C", "K", "N", ":", " ", "1", "2", "3", "4", "5", "6", "7", "8", "9", "0", "1">>,
        <<"2", "5", "0", ",", "0", "0">>>>,
      \* six keywords of one document type
      <<<<"f", "i", "s", " ", "k", "a", "s", "a", " ", "k", "a", "s", "i", "y", "e", "r", " ", "t", "o", "p", "l", "a", "m", " ", "k", "d", "v", " ", "i", "n", "d", "i", "r", "i", "m">>>>,
      \* two document types with two keywords each
      <<<<"g", "i", "b", " ", "v", "k", "n", " ", "p", "o", "s", " ", "s", "l", "i", "p">>>>,
      \* an amount of 309 digits, above the largest double
      <<<<"9", "9", "9", "9", "9", "9", "9", "9", "9", "9", "9", "9", "9", "9", "9", "9", "9", "9", "9", "9", "9", "9", "9", "9", "9", "9", "9", "9", "9", "9", "9", "9", "9", "9", "9", "9", "9", "9", "9", "9", "9", "9", "9", "9", "9", "9", "9", "9", "9", "9", "9", "9", "9", "9", "9", "9", "9", "9", "9", "9", "9", "9", "9", "9", "9", "9", "9", "9", "9", "9", "9", "9", "9", "9", "9", "9", "9", "9", "9", "9", "9", "9", "9", "9", "9", "9", "9", "9", "9", "9", "9", "9", "9", "9", "9", "9", "9", "9", "9", "9", "9", "9", "9", "9", "9", "9", "9", "9", "9", "9", "9", "9", "9", "9", "9", "9", "9", "9", "9", "9", "9", "9", "9", "9", "9", "9", "9", "9", "9", "9", "9", "9", "9", "9", "9", "9", "9", "9", "9", "9", "9", "9", "9", "9", "9", "9", "9", "9", "9", "9", "9", "9", "9", "9", "9", "9", "9", "9", "9", "9", "9", "9", "9", "9", "9", "9", "9", "9", "9", "9", "9", "9", "9", "9", "9", "9", "9", "9", "9", "9", "9", "9", "9", "9", "9", "9", "9", "9", "9", "9", "9", "9", "9", "9", "9", "9", "9", "9", "9", "9", "9", "9", "9", "9", "9", "9", "9", "9", "9", "9", "9", "9", "9", "9", "9", "9", "9", "9", "9", "9", "9", "9", "9", "9", "9", "9", "9", "9", "9", "9", "9", "9", "9", "9", "9", "9", "9", "9", "9", "9", "9", "9", "9", "9", "9", "9", "9", "9", "9", "9", "9", "9", "9", "9", "9", "9", "9", "9", "9", "9", "9", "9", "9", "9", "9", "9", "9", "9", "9", "9", "9", "9", "9", "9", "9", "9", "9", "9", "9", "9", "9", "9", "9", "9", "9", "9", "9", "9", "9", "9", "9", "9", "9", "9", "9", "9", "9", "9", "9", "9", "9", "9", "9", "9", "9", "9", "9", "9", "9", "T", "L">>>>,
      \* consistent amounts and a tax number, no date
      <<<<"T", "O", "P", "L", "A", "M", " ", "1", ".", "1", "8", "0", ",", "0", "0", " ", "T", "L">>,
        <<"A", "r", "a", " ", "T", "o", "p", "l", "a", "m", ":", " ", "1", ".", "0", "0", "0", ",", "0", "0", " ", "T", "L">>,
        <<"K", "D", "V", " ", "1", "8", "0", ",", "0", "0", " ", "T", "L">>,
        <<"V", "K", "N", ":", " ", "1", "2", "3", "4", "5", "6", "7", "8", "9", "0">>>>}

\* "\n".join(lines)
RECURSIVE JoinLines(_)
JoinLines(lines) ==
    IF lines = <<>> THEN <<>>
    ELSE IF Len(lines) = 1 THEN lines[1]
    ELSE lines[1] \o <<"\n">> \o JoinLines(Tail(lines))

\* Every sequence of at most n lines of the pool.
RECURSIVE LineSequences(_)
LineSequences(n) ==
    IF n = 0 THEN {<<>>}
    ELSE LET S == LineSequences(n - 1)
         IN  S \cup {Append(q, i) : q \in {u \in S : Len(u) = n - 1}, i \in 1..Len(Lines)}

\* The texts parsed: every sequence of at most MaxLines lines of the pool and
\* every document.
Texts ==
    {JoinLines([k \in 1..Len(q) |-> Lines[q[k]]]) : q \in LineSequences(MaxLines)}
        \cup {JoinLines(d) : d \in Documents}

Init ==
    /\ raw_text \in Texts
    /\ clean_text = <<>>
    /\ out_schema_version = "None"
    /\ out_fields = <<>>
    /\ out_warnings = <<>>
    /\ out_amount_candidates = <<>>
    /\ out_overall_confidence = 0
    /\ pc = "call"
    /\ NormalizerIdle
    /\ LexerIdle
    /\ CallersIdle
    /\ WorkerIdle

\* The section result r becomes the fields and warnings of out.
Leaves(r) == out_fields' = r.fields /\ out_warnings' = r.warnings

\* clean_text = _clean(raw_text) and the empty record out.
Begin ==
    /\ pc = "call"
    /\ clean_text' = _clean(raw_text)
    /\ out_schema_version' = "2.0"
    /\ out_fields' = <<>>
    /\ out_warnings' = <<>>
    /\ out_amount_candidates' = <<>>
    /\ out_overall_confidence' = 0
    /\ pc' = "doc_type"
    /\ UNCHANGED <<raw_text, normalizer_vars, lexer_vars, caller_vars, worker_vars>>

DetectDocType ==
    /\ pc = "doc_type"
    /\ Leaves(DocTypeSection(clean_text, out_fields, out_warnings))
    /\ pc' = "amounts"
    /\ UNCHANGED <<raw_text, clean_text, out_schema_version, out_amount_candidates, out_overall_confidence,
                   normalizer_vars, lexer_vars, caller_vars, worker_vars>>

ScanAmounts ==
    /\ pc = "amounts"
    /\ out_amount_candidates' = _extract_amount_candidates(clean_text)
    /\ pc' = "identity"
    /\ UNCHANGED <<raw_text, clean_text, out_schema_version, out_fields, out_warnings, out_overall_confidence,
                   normalizer_vars, lexer_vars, caller_vars, worker_vars>>

ExtractIdentity ==
    /\ pc = "identity"
    /\ Leaves(IdentitySection(clean_text, out_fields, out_warnings))
    /\ pc' = "invoice_no"
    /\ UNCHANGED <<raw_text, clean_text, out_schema_version, out_amount_candidates, out_overall_confidence,
                   normalizer_vars, lexer_vars, caller_vars, worker_vars>>

ExtractInvoiceNo ==
    /\ pc = "invoice_no"
    /\ out_fields' = InvoiceNoSection(clean_text, out_fields)
    /\ pc' = "ettn"
    /\ UNCHANGED <<raw_text, clean_text, out_schema_version, out_warnings, out_amount_candidates, out_overall_confidence,
                   normalizer_vars, lexer_vars, caller_vars, worker_vars>>

ExtractEttn ==
    /\ pc = "ettn"
    /\ out_fields' = EttnSection(clean_text, out_fields)
    /\ pc' = "date"
    /\ UNCHANGED <<raw_text, clean_text, out_schema_version, out_warnings, out_amount_candidates, out_overall_confidence,
                   normalizer_vars, lexer_vars, caller_vars, worker_vars>>

ExtractDate ==
    /\ pc = "date"
    /\ Leaves(DateSection(clean_text, out_fields, out_warnings))
    /\ pc' = "total"
    /\ UNCHANGED <<raw_text, clean_text, out_schema_version, out_amount_candidates, out_overall_confidence,
                   normalizer_vars, lexer_vars, caller_vars, worker_vars>>

\* The section leaves r and goes on to the next section, unless it raised.
Proceeds(r, next) ==
    /\ Leaves(r)
    /\ pc' = IF "raised" \in DOMAIN r THEN "raised" ELSE next

ExtractTotal ==
    /\ pc = "total"
    /\ Proceeds(TotalSection(clean_text, out_amount_candidates, out_fields, out_warnings), "subtotal")
    /\ UNCHANGED <<raw_text, clean_text, out_schema_version, out_amount_candidates, out_overall_confidence,
                   normalizer_vars, lexer_vars, caller_vars, worker_vars>>

ExtractSubtotal ==
    /\ pc = "subtotal"
    /\ out_fields' = SubtotalSection(clean_text, out_fields)
    /\ pc' = "vat"
    /\ UNCHANGED <<raw_text, clean_text, out_schema_version, out_warnings, out_amount_candidates, out_overall_confidence,
                   normalizer_vars, lexer_vars, caller_vars, worker_vars>>

ExtractVat ==
    /\ pc = "vat"
    /\ out_fields' = VatSection(clean_text, out_fields)
    /\ pc' = "consistency"
    /\ UNCHANGED <<raw_text, clean_text, out_schema_version, out_warnings, out_amount_candidates, out_overall_confidence,
                   normalizer_vars, lexer_vars, caller_vars, worker_vars>>

CheckConsistency ==
    /\ pc = "consistency"
    /\ \E r \in ConsistencySection(out_fields, out_warnings) : Leaves(r)
    /\ pc' = "score"
    /\ UNCHANGED <<raw_text, clean_text, out_schema_version, out_amount_candidates, out_overall_confidence,
                   normalizer_vars, lexer_vars, caller_vars, worker_vars>>

\* Currency constant and overall confidence.
Score ==
    /\ pc = "score"
    /\ out_fields' = SetField(out_fields, "currency", _field(<<"T", "R", "Y">>, 100, "constant"))
    /\ out_overall_confidence' \in Round2(FlooredScore(out_fields', out_warnings))
    /\ pc' = "low_confidence"
    /\ UNCHANGED <<raw_text, clean_text, out_schema_version, out_warnings, out_amount_candidates,
                   normalizer_vars, lexer_vars, caller_vars, worker_vars>>

\* The return of out with the warning raised for a score of 0.60 as well.
WarnLowConfidence_inclusive ==
    /\ pc = "low_confidence"
    /\ out_warnings' =
          IF out_overall_confidence <= LowConfidenceThreshold
          THEN add_warning(out_warnings, "overall_confidence_low", "medium",
                           "Genel guven skoru dusuk",
                           [overall_confidence |-> out_overall_confidence])
          ELSE out_warnings
    /\ pc' = "done"
    /\ UNCHANGED <<raw_text, clean_text, out_schema_version, out_fields, out_amount_candidates, out_overall_confidence,
                   normalizer_vars, lexer_vars, caller_vars, worker_vars>>

\* The overall_confidence_low warning, and the return of out.
WarnLowConfidence ==
    /\ pc = "low_confidence"
    /\ out_warnings' =
          IF out_overall_confidence < LowConfidenceThreshold
          THEN add_warning(out_warnings, "overall_confidence_low", "medium",
                           "Genel guven skoru dusuk",
                           [overall_confidence |-> out_overall_confidence])
          ELSE out_warnings
    /\ pc' = "done"
    /\ UNCHANGED <<raw_text, clean_text, out_schema_version, out_fields, out_amount_candidates, out_overall_confidence,
                   normalizer_vars, lexer_vars, caller_vars, worker_vars>>

Next ==
    \/ Begin
    \/ DetectDocType
    \/ ScanAmounts
    \/ ExtractIdentity
    \/ ExtractInvoiceNo
    \/ ExtractEttn
    \/ ExtractDate
    \/ ExtractTotal
    \/ ExtractSubtotal
    \/ ExtractVat
    \/ CheckConsistency
    \/ Score
    \/ WarnLowConfidence

Spec == Init /\ [][Next]_vars

(***************************************************************************)
(* Concurrent calls of parse_receipt_fields.  Each caller (a worker thread  *)
(* or process) calls the function on a text and a file name; the calls run  *)
(* section by section in any interleaving.  The dict out["fields"] and the  *)
(* list out["warnings"] are objects of the heap, which a call reaches       *)
(* through the references it holds in its locals.                           *)
(***************************************************************************)
Callers == {1, 2}

\* How many calls a caller makes.
MaxCalls == 1

\* The file name each caller passes.
Filenames == <<"", "fis.jpg">>

\* The texts the callers pass.
CallTexts ==
    {JoinLines(<<Lines[8]>>),
     JoinLines(<<Lines[1], Lines[7]>>)}

\* The locals of a call after the section result r.
After(s, r, next) ==
    [s EXCEPT !.fields = r.fields,
              !.warnings = r.warnings,
              !.pc = IF "raised" \in DOMAIN r THEN "raised" ELSE next]

\* Currency constant and overall confidence oc.
Scored(s, oc) ==
    [s EXCEPT !.fields = SetField(s.fields, "currency", _field(<<"T", "R", "Y">>, 100, "constant")),
              !.overall_confidence = oc,
              !.pc = "low_confidence"]

\* The overall_confidence_low warning, and the return of out.
Returned(s) ==
    [s EXCEPT !.warnings =
                  IF s.overall_confidence < LowConfidenceThreshold
                  THEN add_warning(s.warnings, "overall_confidence_low", "medium",
                                   "Genel guven skoru dusuk",
                                   [overall_confidence |-> s.overall_confidence])
                  ELSE s.warnings,
              !.pc = "done"]

\* The section s.pc of parse_receipt_fields on the locals s of a call: the
\* locals it can leave.
SectionStep(s) ==
    CASE s.pc = "doc_type" ->
            {After(s, DocTypeSection(s.text, s.fields, s.warnings), "amounts")}
      [] s.pc = "amounts" ->
            {[s EXCEPT !.amounts = _extract_amount_candidates(s.text), !.pc = "identity"]}
      [] s.pc = "identity" ->
            {After(s, IdentitySection(s.text, s.fields, s.warnings), "invoice_no")}
      [] s.pc = "invoice_no" ->
            {[s EXCEPT !.fields = InvoiceNoSection(s.text, s.fields), !.pc = "ettn"]}
      [] s.pc = "ettn" ->
            {[s EXCEPT !.fields = EttnSection(s.text, s.fields), !.pc = "date"]}
      [] s.pc = "date" ->
            {After(s, DateSection(s.text, s.fields, s.warnings), "total")}
      [] s.pc = "total" ->
            {After(s, TotalSection(s.text, s.amounts, s.fields, s.warnings), "subtotal")}
      [] s.pc = "subtotal" ->
            {[s EXCEPT !.fields = SubtotalSection(s.text, s.fields), !.pc = "vat"]}
      [] s.pc = "vat" ->
            {[s EXCEPT !.fields = VatSection(s.text, s.fields), !.pc = "consistency"]}
      [] s.pc = "consistency" ->
            {After(s, r, "score") : r \in ConsistencySection(s.fields, s.warnings)}
      [] s.pc = "score" ->
            {Scored(s, oc) :
                oc \in Round2(FlooredScore(
                          SetField(s.fields, "currency", _field(<<"T", "R", "Y">>, 100, "constant")),
                          s.warnings))}
      [] s.pc = "low_confidence" -> {Returned(s)}

\* The locals of a call on entry, text = _clean(raw_text), with the empty
\* fields and warnings.
Entered(raw) ==
    [pc |-> "doc_type", text |-> _clean(raw), fields |-> <<>>, warnings |-> <<>>,
     amounts |-> <<>>, overall_confidence |-> 0]

\* The locals of caller c's call, its two containers read from the heap.
Locals(c) ==
    [pc |-> calls[c].pc, text |-> calls[c].text,
     fields |-> heap[calls[c].fields], warnings |-> heap[calls[c].warnings],
     amounts |-> calls[c].amounts, overall_confidence |-> calls[c].overall_confidence]

NoCall ==
    [pc |-> "idle", raw_text |-> <<>>, filename |-> "", text |-> <<>>, fields |-> 0,
     warnings |-> 0, amounts |-> <<>>, overall_confidence |-> 0, made |-> 0]

InitCalls ==
    /\ heap = <<>>
    /\ calls = [c \in Callers |-> NoCall]
    /\ NormalizerIdle
    /\ LexerIdle
    /\ ParserIdle
    /\ WorkerIdle

\* A call that takes the containers of the first call made instead of
\* creating its own.
CallBegin_shared(c) ==
    /\ calls[c].pc \in {"idle", "done", "raised"}
    /\ calls[c].made < MaxCalls
    /\ \E raw \in CallTexts :
          /\ heap' = IF heap = <<>> THEN <<<<>>, <<>>>> ELSE heap
          /\ calls' = [calls EXCEPT
                ![c] = [pc |-> "doc_type", raw_text |-> raw, filename |-> Filenames[c],
                        text |-> _clean(raw), fields |-> 1, warnings |-> 2,
                        amounts |-> <<>>, overall_confidence |-> 0, made |-> @.made + 1]]
    /\ UNCHANGED <<normalizer_vars, lexer_vars, parser_vars, worker_vars>>

\* Caller c calls parse_receipt_fields(raw, filename): text is cleaned and
\* out is built with a new dict of fields and a new list of warnings.
CallBegin(c) ==
    /\ calls[c].pc \in {"idle", "done", "raised"}
    /\ calls[c].made < MaxCalls
    /\ \E raw \in CallTexts :
          /\ heap' = heap \o <<<<>>, <<>>>>
          /\ calls' = [calls EXCEPT
                ![c] = [pc |-> "doc_type", raw_text |-> raw, filename |-> Filenames[c],
                        text |-> _clean(raw), fields |-> Len(heap) + 1, warnings |-> Len(heap) + 2,
                        amounts |-> <<>>, overall_confidence |-> 0, made |-> @.made + 1]]
    /\ UNCHANGED <<normalizer_vars, lexer_vars, parser_vars, worker_vars>>

\* The call of caller c has run one section and holds the locals s.
Holds(c, s) ==
    /\ heap' = [heap EXCEPT ![calls[c].fields] = s.fields, ![calls[c].warnings] = s.warnings]
    /\ calls' = [calls EXCEPT ![c].pc = s.pc, ![c].amounts = s.amounts,
                              ![c].overall_confidence = s.overall_confidence]

\* The call of caller c runs its next section.
CallStep(c) ==
    /\ calls[c].pc \notin {"idle", "done", "raised"}
    /\ \E s \in SectionStep(Locals(c)) : Holds(c, s)
    /\ UNCHANGED <<normalizer_vars, lexer_vars, parser_vars, worker_vars>>

NextCalls ==
    \/ \E c \in Callers : CallBegin(c)
    \/ \E c \in Callers : CallStep(c)

SpecCalls == InitCalls /\ [][NextCalls]_vars

(***************************************************************************)
(* bot_polling.py and worker_process.py: the bot saves the files it        *)
(* receives into data/<chat_id>/inbox, and the worker scans the inboxes    *)
(* and hands every file it finds to process_file.                          *)
(***************************************************************************)
Chats == {1, 2}

MaxMessages == 2

MaxRuns == 2

\* ALLOWED_EXTENSIONS of bot_polling.py.
bot_ALLOWED_EXTENSIONS == {".pdf", ".jpg", ".jpeg", ".png", ".heic"}

\* ALLOWED_EXTENSIONS of worker_process.py.
ALLOWED_EXTENSIONS == {".jpg", ".jpeg", ".png", ".pdf"}

\* The extensions of the documents users send, one of them refused by the bot.
DocumentExtensions == bot_ALLOWED_EXTENSIONS \cup {".txt"}

\* The file <timestamp>__<message_id>__<original_name> of a chat's folders.
make_safe_filename(chat_id, message_id, ext) ==
    [chat_id |-> chat_id, message_id |-> message_id, ext |-> ext]

Files == [chat_id : Chats, message_id : 1..MaxMessages, ext : bot_ALLOWED_EXTENSIONS]

\* file_path.stem together with the chat whose output folder holds it.
Stem(file_path) == [chat_id |-> file_path.chat_id, message_id |-> file_path.message_id]

\* The steps of the try block of process_file that can raise.
TrySteps == {"ocr", "parse_receipt_fields", "write_json", "move_file"}

InitWorker ==
    /\ received = 0
    /\ inbox = <<>>
    /\ processed = {}
    /\ failed = {}
    /\ output = {}
    /\ runs = [f \in Files |-> 0]
    /\ worker = [pc |-> "sleep", chats |-> {}, files |-> <<>>]
    /\ NormalizerIdle
    /\ LexerIdle
    /\ ParserIdle
    /\ CallersIdle

\* A photo arrives in a chat and is saved as photo.jpg.
handle_photo(chat_id) ==
    /\ received < MaxMessages
    /\ received' = received + 1
    /\ inbox' = Append(inbox, make_safe_filename(chat_id, received + 1, ".jpg"))
    /\ UNCHANGED <<processed, failed, output, runs, worker>>
    /\ UNCHANGED <<normalizer_vars, lexer_vars, parser_vars, caller_vars>>

\* A document arrives in a chat: one that is too large or of another type is
\* refused; the others are saved, and a HEIC file stays in the inbox beside
\* the JPG made from it when the conversion is installed and succeeds.
handle_document(chat_id) ==
    /\ received < MaxMessages
    /\ received' = received + 1
    /\ \E ext \in DocumentExtensions, too_large \in BOOLEAN, converted \in BOOLEAN :
          LET save_path == make_safe_filename(chat_id, received + 1, ext)
              jpg_path == make_safe_filename(chat_id, received + 1, ".jpg")
          IN  inbox' = IF too_large \/ ext \notin bot_ALLOWED_EXTENSIONS THEN inbox
                       ELSE IF ext = ".heic" /\ converted THEN inbox \o <<save_path, jpg_path>>
                       ELSE Append(inbox, save_path)
    /\ UNCHANGED <<processed, failed, output, runs, worker>>
    /\ UNCHANGED <<normalizer_vars, lexer_vars, parser_vars, caller_vars>>

\* The main loop calls scan_inbox_and_process, which goes through the chat
\* folders.
scan_inbox_and_process ==
    /\ worker.pc = "sleep"
    /\ worker' = [pc |-> "scan", chats |-> Chats, files |-> <<>>]
    /\ UNCHANGED <<received, inbox, processed, failed, output, runs>>
    /\ UNCHANGED <<normalizer_vars, lexer_vars, parser_vars, caller_vars>>

\* The files of the next chat's inbox are listed, oldest first.
ListInbox ==
    /\ worker.pc = "scan"
    /\ worker.files = <<>>
    /\ \E chat_id \in worker.chats :
          worker' = [worker EXCEPT !.chats = @ \ {chat_id},
                                   !.files = SelectSeq(inbox, LAMBDA p : p.chat_id = chat_id)]
    /\ UNCHANGED <<received, inbox, processed, failed, output, runs>>
    /\ UNCHANGED <<normalizer_vars, lexer_vars, parser_vars, caller_vars>>

\* shutil.move of the file out of the inbox.
move_file(file_path) == SelectSeq(inbox, LAMBDA p : p # file_path)

\* The try block of process_file on the file: nothing raises, or the step
\* raised does; in the except branch the move to failed/ may raise as well,
\* which is passed over.
TryBlock(file_path, raised, stays) ==
    /\ runs' = [runs EXCEPT ![file_path] = Min(@ + 1, MaxRuns)]
    /\ output' = IF raised \in {"none", "move_file"} THEN output \cup {Stem(file_path)}
                 ELSE output
    /\ processed' = IF raised = "none" THEN processed \cup {file_path} ELSE processed
    /\ failed' = IF raised # "none" /\ ~stays THEN failed \cup {file_path} ELSE failed
    /\ inbox' = IF raised # "none" /\ stays THEN inbox ELSE move_file(file_path)

\* process_file on the next listed file: a file whose extension the worker
\* does not allow is left where it is.
process_file ==
    /\ worker.pc = "scan"
    /\ worker.files # <<>>
    /\ worker' = [worker EXCEPT !.files = Tail(@)]
    /\ LET file_path == Head(worker.files)
       IN  IF file_path.ext \notin ALLOWED_EXTENSIONS
           THEN UNCHANGED <<inbox, processed, failed, output, runs>>
           ELSE \E raised \in TrySteps \cup {"none"}, stays \in BOOLEAN :
                   TryBlock(file_path, raised, stays)
    /\ UNCHANGED received
    /\ UNCHANGED <<normalizer_vars, lexer_vars, parser_vars, caller_vars>>

\* The scan has gone through every chat folder and the main loop sleeps.
Sleep ==
    /\ worker.pc = "scan"
    /\ worker.files = <<>>
    /\ worker.chats = {}
    /\ worker' = [worker EXCEPT !.pc = "sleep"]
    /\ UNCHANGED <<received, inbox, processed, failed, output, runs>>
    /\ UNCHANGED <<normalizer_vars, lexer_vars, parser_vars, caller_vars>>

\* The steps of the worker, whose main loop never ends.
WorkerLoop == scan_inbox_and_process \/ ListInbox \/ process_file \/ Sleep

NextWorker ==
    \/ \E chat_id \in Chats : handle_photo(chat_id)
    \/ \E chat_id \in Chats : handle_document(chat_id)
    \/ scan_inbox_and_process
    \/ ListInbox
    \/ process_file
    \/ Sleep

SpecWorker == InitWorker /\ [][NextWorker]_vars /\ WF_vars(WorkerLoop)

(***************************************************************************)
(* Properties of parse_receipt_fields.                                     *)
(***************************************************************************)
\* The confidence of the field key in the result, 0 when it is absent.
Confidence(key) == IF key \in DOMAIN out_fields THEN out_fields[key].confidence ELSE 0

\* The positions of the warnings with the code.
WarningsWith(code) == {i \in 1..Len(out_warnings) : out_warnings[i].code = code}

\* How many warnings of the severity were raised before scoring.
CountBeforeScoring(severity) ==
    Cardinality({i \in 1..Len(out_warnings) :
                    /\ out_warnings[i].severity = severity
                    /\ out_warnings[i].code # "overall_confidence_low"})

\* P, in ten-thousandths: 0.20 per high, 0.10 per medium, 0.05 per low.
PenaltyBeforeScoring ==
    2000 * CountBeforeScoring("high") + 1000 * CountBeforeScoring("medium")
        + 500 * CountBeforeScoring("low")

\* oc (hundredths) is score (ten-thousandths) rounded to two decimals; a
\* score half-way between two hundredths may round to either.
RoundsTo(score, oc) == 100 * oc - score \in (-50)..50

\* C1: in every result, overall_confidence is max(0, S - P) rounded to two
\* decimals, with S = 0.55 * total + 0.20 * date + 0.25 * identity number
\* (vkn or tckn), absent fields counting 0, and P the penalty of the warnings
\* raised before scoring; it lies in [0, 1].
C1_OverallConfidence ==
    pc = "done" =>
        LET identity == IF "vkn" \in DOMAIN out_fields THEN Confidence("vkn")
                        ELSE Confidence("tckn")
            S == 55 * Confidence("total_including_vat") + 20 * Confidence("date")
                     + 25 * identity
        IN  /\ RoundsTo(Max(0, S - PenaltyBeforeScoring), out_overall_confidence)
            /\ out_overall_confidence \in 0..100

\* C2: in every result, overall_confidence_low is present exactly when
\* overall_confidence < 0.60; when present it is there once, last, medium,
\* with the score as meta; and overall_confidence is the score of the
\* warnings before it, its own penalty not subtracted.
C2_LowConfidenceWarning ==
    pc = "done" =>
        LET low == WarningsWith("overall_confidence_low")
            S == 55 * Confidence("total_including_vat") + 20 * Confidence("date")
                     + 25 * Confidence("vkn")
        IN  /\ (low # {}) <=> (out_overall_confidence < 60)
            /\ low # {} =>
                  /\ low = {Len(out_warnings)}
                  /\ out_warnings[Len(out_warnings)].severity = "medium"
                  /\ out_warnings[Len(out_warnings)].meta
                         = [overall_confidence |-> out_overall_confidence]
            /\ RoundsTo(Max(0, S - PenaltyBeforeScoring), out_overall_confidence)

\* A result with a low score: other warnings, then overall_confidence_low.
C2_Witness ==
    /\ pc = "done"
    /\ out_overall_confidence \in 1..59
    /\ Len(out_warnings) >= 2
    /\ out_warnings[Len(out_warnings)].code = "overall_confidence_low"

\* The three amounts are present before the consistency check.
AllThree ==
    {"total_excluding_vat", "vat_amount", "total_including_vat"} \subseteq DOMAIN out_fields

\* |subtotal + vat - total| <= max(1.0, 0.01 * total) on the three amounts,
\* in exact arithmetic.
WithinClaimedTolerance ==
    LET subtotal_v == out_fields["total_excluding_vat"].value
        vat_v == out_fields["vat_amount"].value
        total_v == out_fields["total_including_vat"].value
        k == Max(Len(subtotal_v.frac), Max(Len(vat_v.frac), Len(total_v.frac)))
    IN  100 * Abs(Scaled(subtotal_v, k) + Scaled(vat_v, k) - Scaled(total_v, k))
            <= Max(100 * Pow10(k), Scaled(total_v, k))

\* The consistency check leaves every field with the confidence it had.
ConfidencesKept ==
    /\ DOMAIN out_fields' = DOMAIN out_fields
    /\ \A key \in DOMAIN out_fields : out_fields'[key].confidence = out_fields[key].confidence

\* C3: when the three amounts are present and |subtotal + vat - total| <=
\* max(1.0, 0.01 * total), the consistency check raises no
\* amounts_inconsistent and leaves min(1.0, c + 0.15) on the total and
\* min(1.0, c + 0.10) on the subtotal and on the VAT amount; no field
\* confidence ever exceeds 1.0.
C3_ConsistencyPass ==
    /\ [](\A key \in DOMAIN out_fields : out_fields[key].confidence <= 100)
    /\ [][(pc = "consistency" /\ AllThree /\ WithinClaimedTolerance) =>
             /\ out_warnings' = out_warnings
             /\ out_fields'["total_including_vat"].confidence
                    = Min(100, out_fields["total_including_vat"].confidence + 15)
             /\ out_fields'["total_excluding_vat"].confidence
                    = Min(100, out_fields["total_excluding_vat"].confidence + 10)
             /\ out_fields'["vat_amount"].confidence
                    = Min(100, out_fields["vat_amount"].confidence + 10)]_vars

\* C4: the consistency check raises amounts_inconsistent (high, with the
\* three amounts as meta) exactly when the three amounts are present and
\* |subtotal + vat - total| > max(1.0, 0.01 * total); then, and when one of
\* the three is absent, it leaves every confidence as it was.
C4_ConsistencyFail ==
    [][pc = "consistency" =>
          IF AllThree /\ ~WithinClaimedTolerance
          THEN /\ out_warnings' =
                     Append(out_warnings,
                            [code |-> "amounts_inconsistent", severity |-> "high",
                             message |-> "Ara toplam + KDV toplami genel toplam ile uyusmuyor",
                             meta |-> [subtotal |-> out_fields["total_excluding_vat"].value,
                                       vat |-> out_fields["vat_amount"].value,
                                       total |-> out_fields["total_including_vat"].value]])
               /\ ConfidencesKept
          ELSE /\ out_warnings' = out_warnings
               /\ ~AllThree => ConfidencesKept]_vars

\* The amount of the labelled total of the text, when there is one.
LabelledTotal ==
    ParseIfAny(PyOr(_find_first(TotalInclPattern, clean_text),
                    _find_first(TotalGenericPattern, clean_text)))

\* C5: a labelled total that parses is emitted with source keyword_total at
\* 0.90 without a total warning; else the largest amount candidate is emitted
\* with source heuristic_max_amount at 0.55 and one total_fallback_max_amount
\* (medium) carrying the candidates; else no total is emitted and one
\* total_not_found (high) is raised.  So the total is absent exactly when
\* total_not_found is present, and the two warnings never come together.
\* This is to hold once the total step has run, also when the step raised
\* ("raised" is reached only from the total step).
C5_TotalChain ==
    /\ pc \in {"subtotal", "raised"} =>
          IF LabelledTotal # NoValue
          THEN /\ out_fields["total_including_vat"] =
                     [value |-> LabelledTotal, confidence |-> 90, source |-> "keyword_total"]
               /\ WarningsWith("total_fallback_max_amount") = {}
               /\ WarningsWith("total_not_found") = {}
          ELSE IF out_amount_candidates # <<>>
          THEN /\ out_fields["total_including_vat"].source = "heuristic_max_amount"
               /\ out_fields["total_including_vat"].confidence = 55
               /\ \E i \in 1..Len(out_amount_candidates) :
                     out_fields["total_including_vat"].value = out_amount_candidates[i]
               /\ \A i \in 1..Len(out_amount_candidates) :
                     ~AmountLess(out_fields["total_including_vat"].value,
                                 out_amount_candidates[i])
               /\ \E i \in 1..Len(out_warnings) :
                     /\ WarningsWith("total_fallback_max_amount") = {i}
                     /\ out_warnings[i].severity = "medium"
                     /\ out_warnings[i].meta.amount_candidates = out_amount_candidates
               /\ WarningsWith("total_not_found") = {}
          ELSE /\ "total_including_vat" \notin DOMAIN out_fields
               /\ \E i \in 1..Len(out_warnings) :
                     /\ WarningsWith("total_not_found") = {i}
                     /\ out_warnings[i].severity = "high"
               /\ WarningsWith("total_fallback_max_amount") = {}
    /\ pc \in {"subtotal", "vat", "consistency", "score", "low_confidence", "done", "raised"} =>
          /\ ("total_including_vat" \notin DOMAIN out_fields)
                 <=> (WarningsWith("total_not_found") # {})
          /\ WarningsWith("total_not_found") = {} \/ WarningsWith("total_fallback_max_amount") = {}

\* The fallback has acted: a label whose amount does not parse, and two
\* candidates to choose from.
C5_Witness ==
    /\ pc = "subtotal"
    /\ WarningsWith("total_fallback_max_amount") # {}
    /\ Len(out_amount_candidates) >= 2

\* What the whole-text pattern of the date shape finds in the text.
WholeTextDate(shape) ==
    _find_first(<<Pattern(<<WordBoundary>>, shape, <<WordBoundary>>)>>, clean_text)

\* The date field is the string found, with the source.
DateIs(found, source) ==
    /\ "date" \in DOMAIN out_fields
    /\ out_fields["date"] = [value |-> found.chars, confidence |-> 75, source |-> source]
    /\ WarningsWith("date_not_found") = {}

\* C6: the date is what the first of the whole-text patterns dd.mm.yyyy,
\* yyyy-mm-dd, dd.mm.yy that matches finds; only when none matches, what the
\* scan by label finds, with source label_based_date; only when that fails
\* too is the date omitted and one date_not_found (high) raised, with at most
\* 5 hint lines.  So the date is absent exactly when date_not_found is present.
C6_DateChain ==
    /\ pc = "total" =>
          IF Truthy(WholeTextDate(DateDMY4))
          THEN DateIs(WholeTextDate(DateDMY4), "pattern_date_dd.mm.yyyy")
          ELSE IF Truthy(WholeTextDate(DateYMD))
          THEN DateIs(WholeTextDate(DateYMD), "pattern_date_yyyy-mm-dd")
          ELSE IF Truthy(WholeTextDate(DateDMY2))
          THEN DateIs(WholeTextDate(DateDMY2), "pattern_date_dd.mm.yy")
          ELSE IF Truthy(_extract_date_by_label(clean_text))
          THEN DateIs(_extract_date_by_label(clean_text), "label_based_date")
          ELSE /\ "date" \notin DOMAIN out_fields
               /\ \E i \in 1..Len(out_warnings) :
                     /\ WarningsWith("date_not_found") = {i}
                     /\ out_warnings[i].severity = "high"
                     /\ Len(out_warnings[i].meta.hint_lines) <= 5
    /\ pc \in {"total", "subtotal", "vat", "consistency", "score", "low_confidence", "done"} =>
          ("date" \notin DOMAIN out_fields) <=> (WarningsWith("date_not_found") # {})

\* A dd.mm.yyyy date has won over a yyyy-mm-dd date earlier in the text.
C6_Witness ==
    /\ pc = "total"
    /\ Truthy(WholeTextDate(DateYMD))
    /\ "date" \in DOMAIN out_fields
    /\ out_fields["date"].source = "pattern_date_dd.mm.yyyy"
    /\ Search(<<Pattern(<<>>, DateYMD, <<>>)>>, clean_text).start
           < Search(<<Pattern(<<>>, DateDMY4, <<>>)>>, clean_text).start

\* The document types in the order of the claim.
TypeOrder == <<"e_fatura", "pos_slip", "market_fis", "restaurant_fis", "akaryakit_fis">>

\* How many keywords of each document type occur in the lowered text t.
HitCounts(t) ==
    <<Cardinality({k \in 1..Len(signatures[1].keys) : Contains(signatures[1].keys[k], t)}),
      Cardinality({k \in 1..Len(signatures[2].keys) : Contains(signatures[2].keys[k], t)}),
      Cardinality({k \in 1..Len(signatures[3].keys) : Contains(signatures[3].keys[k], t)}),
      Cardinality({k \in 1..Len(signatures[4].keys) : Contains(signatures[4].keys[k], t)}),
      Cardinality({k \in 1..Len(signatures[5].keys) : Contains(signatures[5].keys[k], t)})>>

WinningHits(hits) == Greatest({hits[i] : i \in 1..Len(TypeOrder)})

\* The first type of the order among those with the highest hit count.
WinningType(hits) ==
    TypeOrder[Least({i \in 1..Len(TypeOrder) : hits[i] = WinningHits(hits)})]

StepConfidence(n) ==
    IF n = 0 THEN 30 ELSE IF n = 1 THEN 55 ELSE IF n = 2 THEN 70 ELSE 90

\* What the claim says of the detected type d and the positions w of the
\* doc_type_unknown warnings, for the lowered text t and its hit counts.
DocTypeAsClaimed(d, w, t, hits) ==
    /\ d.value = IF WinningHits(hits) = 0 THEN "unknown" ELSE WinningType(hits)
    /\ d.value = "unknown" <=> WinningHits(hits) = 0
    /\ d.confidence = StepConfidence(WinningHits(hits))
    /\ Len(d.matched_signatures) = Min(5, WinningHits(hits))
    /\ \A k \in 1..Len(d.matched_signatures) :
          /\ Contains(d.matched_signatures[k], t)
          /\ \E i \in 1..Len(TypeOrder) :
                /\ TypeOrder[i] = d.value
                /\ \E n \in 1..Len(signatures[i].keys) :
                      signatures[i].keys[n] = d.matched_signatures[k]
    /\ Cardinality(w) = IF d.value = "unknown" THEN 1 ELSE 0
    /\ \A i \in w : out_warnings[i].severity = "medium"

DocTypeOf(t) == DocTypeAsClaimed(out_fields["doc_type"], WarningsWith("doc_type_unknown"), t, HitCounts(t))

\* C11: the detected type is the first type of the order e_fatura, pos_slip,
\* market_fis, restaurant_fis, akaryakit_fis with the highest keyword-hit
\* count, and "unknown" exactly when no keyword occurs; its confidence is
\* 0.30, 0.55, 0.70, 0.90 for 0, 1, 2, 3 or more winning hits;
\* matched_signatures has at most 5 keywords, all of the winning type and all
\* in the text; and one medium doc_type_unknown warning is raised exactly
\* when the type is "unknown".
C11_DocType ==
    pc \notin {"idle", "call", "doc_type"} => DocTypeOf(Lower(clean_text))

\* Two keywords of e_fatura and two of pos_slip: the tie goes to e_fatura.
C11_Witness ==
    /\ pc = "amounts"
    /\ HitCounts(Lower(clean_text)) = <<2, 2, 0, 0, 0>>
    /\ out_fields["doc_type"].value = "e_fatura"
    /\ out_fields["doc_type"].confidence = 70

\* The keys of the fields a result may hold besides doc_type and currency.
ExtractedKeys ==
    {"vkn", "tckn", "invoice_no", "ettn", "date", "total_including_vat",
     "total_excluding_vat", "vat_amount"}

\* C12: no call raises, and every returned record is complete: schema_version
\* is "2.0", fields holds doc_type and currency ("TRY", confidence 1.00),
\* every other key of fields is one of the extracted fields and holds a value
\* that was found (a string that is not empty, or a number), and
\* overall_confidence is a number in [0, 1].
C12_CompleteRecord ==
    /\ pc # "raised"
    /\ pc = "done" =>
          /\ out_schema_version = "2.0"
          /\ {"doc_type", "currency"} \subseteq DOMAIN out_fields
          /\ out_fields["currency"].value = <<"T", "R", "Y">>
          /\ out_fields["currency"].confidence = 100
          /\ DOMAIN out_fields \subseteq ExtractedKeys \cup {"doc_type", "currency"}
          /\ \A key \in DOMAIN out_fields \cap ExtractedKeys :
                /\ out_fields[key].value # <<>>
                /\ out_fields[key].value # NoValue
          /\ out_overall_confidence \in 0..100

\* t[i..j] is a run of two or more digits, points and commas that is
\* followed, after any whitespace, by TL in either case.
IsFollowedByTL(t, i, j) ==
    /\ j > i
    /\ \A k \in i..j : t[k] \in Digits \cup {".", ","}
    /\ \E n \in (j + 1)..(Len(t) - 1) :
          /\ \A k \in (j + 1)..(n - 1) : t[k] \in Whitespace
          /\ t[n] \in {"T", "t"}
          /\ t[n + 1] \in {"L", "l"}

\* t[i..j] is written in grouped-decimal shape: grouped by thousands or up to
\* six digits, then a comma and two digits.
IsGroupedShape(t, i, j) ==
    \/ IsGroupedDecimal(SubSeq(t, i, j))
    \/ /\ j - i \in 3..8
       /\ t[j - 2] = ","
       /\ \A k \in i..j : k # j - 2 => t[k] \in Digits

\* v is the value of a number of the text t of one of the two kinds.
IsParsedFrom(v, t) ==
    \E i \in 1..Len(t) : \E j \in i..Len(t) :
        /\ IsFollowedByTL(t, i, j) \/ IsGroupedShape(t, i, j)
        /\ _parse_tr_amount(PyStr(SubSeq(t, i, j))) = v

\* C13: amount_candidates is strictly ascending, and each of its elements is
\* the value the lexer gives for a number of the text that is followed by TL
\* or written in grouped-decimal shape.
C13_AmountCandidates ==
    pc \notin {"idle", "call", "doc_type", "amounts"} =>
        /\ \A i \in 1..(Len(out_amount_candidates) - 1) :
              AmountLess(out_amount_candidates[i], out_amount_candidates[i + 1])
        /\ \A i \in 1..Len(out_amount_candidates) :
              IsParsedFrom(out_amount_candidates[i], clean_text)

\* A total found by both patterns and a subtotal: four matches, two values.
C13_Witness ==
    /\ pc = "identity"
    /\ Len(_extract_amount_candidates_found(clean_text)) = 4
    /\ Len(out_amount_candidates) = 2
    /\ AmountLess(out_amount_candidates[1], out_amount_candidates[2])

\* What the claim says of the personal number, m being the labelled 11-digit
\* number matched in the text (PyNone when there is none).
TcknAsClaimed(m) ==
    IF ~Truthy(m)
    THEN /\ "tckn" \notin DOMAIN out_fields
         /\ WarningsWith("tckn_suspect") = {}
    ELSE IF m.chars[1] # "0"
    THEN /\ "tckn" \in DOMAIN out_fields
         /\ out_fields["tckn"].value = m.chars
         /\ out_fields["tckn"].confidence = 70
         /\ WarningsWith("tckn_suspect") = {}
    ELSE /\ "tckn" \notin DOMAIN out_fields
         /\ Cardinality(WarningsWith("tckn_suspect")) = 1
         /\ \A i \in WarningsWith("tckn_suspect") : out_warnings[i].severity = "medium"

\* C14: a matched labelled TCKN whose first digit is not 0 gives the field
\* tckn at confidence 0.70 and no tckn_suspect warning; one whose first digit
\* is 0 gives no field and exactly one medium tckn_suspect warning; without a
\* match there is neither the field nor the warning.
C14_PersonalId ==
    pc \notin {"idle", "call", "doc_type", "amounts", "identity"} =>
        TcknAsClaimed(_find_first(TcknPattern, clean_text))

\* A personal number with a leading zero was met: the warning, no field.
C14_Witness ==
    /\ pc = "invoice_no"
    /\ Truthy(_find_first(TcknPattern, clean_text))
    /\ _find_first(TcknPattern, clean_text).chars[1] = "0"
    /\ "tckn" \notin DOMAIN out_fields
    /\ WarningsWith("tckn_suspect") # {}

\* The warning codes of the claim, in the claimed order (the two total
\* warnings share a place), with the severity of each.
Taxonomy ==
    <<[code |-> "doc_type_unknown", severity |-> "medium", place |-> 1],
      [code |-> "tckn_suspect", severity |-> "medium", place |-> 2],
      [code |-> "date_not_found", severity |-> "high", place |-> 3],
      [code |-> "total_not_found", severity |-> "high", place |-> 4],
      [code |-> "total_fallback_max_amount", severity |-> "medium", place |-> 4],
      [code |-> "amounts_inconsistent", severity |-> "high", place |-> 5],
      [code |-> "overall_confidence_low", severity |-> "medium", place |-> 6]>>

\* The warning w has the code of the n-th entry of the taxonomy.
IsEntry(w, n) == Taxonomy[n].code = w.code

\* C15: every warning has a code, a severity in {low, medium, high} and a
\* message; its code is one of the seven of the taxonomy and its severity the
\* one fixed for the code; and the warnings stand in the order
\* doc_type_unknown, tckn_suspect, date_not_found, total warning,
\* amounts_inconsistent, overall_confidence_low, each code at most once.
C15_WarningTaxonomy ==
    /\ \A i \in 1..Len(out_warnings) :
          /\ {"code", "severity", "message"} \subseteq DOMAIN out_warnings[i]
          /\ DOMAIN out_warnings[i] \subseteq {"code", "severity", "message", "meta"}
          /\ out_warnings[i].severity \in {"low", "medium", "high"}
          /\ out_warnings[i].message # ""
          /\ \E n \in 1..Len(Taxonomy) :
                /\ IsEntry(out_warnings[i], n)
                /\ out_warnings[i].severity = Taxonomy[n].severity
    /\ \A i \in 1..Len(out_warnings) : \A j \in (i + 1)..Len(out_warnings) :
          \E n \in 1..Len(Taxonomy) : \E m \in 1..Len(Taxonomy) :
              /\ IsEntry(out_warnings[i], n)
              /\ IsEntry(out_warnings[j], m)
              /\ Taxonomy[n].place < Taxonomy[m].place

\* A result with five warnings, the low-confidence warning last.
C15_Witness ==
    /\ pc = "done"
    /\ Len(out_warnings) = 5
    /\ out_warnings[1].code = "doc_type_unknown"
    /\ out_warnings[5].code = "overall_confidence_low"

\* The locals with which a call of parse_receipt_fields that runs alone from
\* the locals s can end.
RECURSIVE RunAlone(_)
RunAlone(s) ==
    IF s.pc \in {"done", "raised"} THEN {s}
    ELSE UNION {RunAlone(n) : n \in SectionStep(s)}

\* What a call on each text returns when it runs alone.
Alone == [raw \in CallTexts |-> RunAlone(Entered(raw))]

\* C16: a call that ran interleaved with the calls of the other callers ends
\* with the record that the call on its text gives when it runs alone,
\* whatever file name it was given; so calls on the same text return equal
\* records.  No two calls hold the same container.
C16_CallsIndependent ==
    /\ \A c \in Callers :
          calls[c].pc \in {"done", "raised"} =>
              /\ Locals(c) \in Alone[calls[c].raw_text]
              /\ Cardinality(Alone[calls[c].raw_text]) = 1
    /\ \A c \in Callers : \A d \in Callers \ {c} :
          (calls[c].pc # "idle" /\ calls[d].pc # "idle") =>
              {calls[c].fields, calls[c].warnings} \cap {calls[d].fields, calls[d].warnings} = {}

\* Caller 2 began first with one text and is still in its call; caller 1
\* began later with another text and a different file name and has returned.
C16_Witness ==
    /\ calls[1].pc = "done"
    /\ calls[2].pc = "total"
    /\ calls[2].fields < calls[1].fields
    /\ calls[1].raw_text # calls[2].raw_text
    /\ calls[1].filename # calls[2].filename

\* The lexer was called on the string t and returned the decimal w.f.
Lexed(t, w, f) ==
    (apc = "done" /\ a_in = PyStr(t)) => a_out = [tag |-> "float", whole |-> w, frac |-> f]

\* C17 as stated: "6900" lexes to 69.00 and "115000" to 1150.00.
C17_Examples ==
    /\ Lexed(<<"6", "9", "0", "0">>, <<"6", "9">>, <<>>)
    /\ Lexed(<<"1", "1", "5", "0", "0", "0">>, <<"1", "1", "5", "0">>, <<>>)

\* C17 amended: "6900", a run of four digits, lexes to 6900.00 (the cents
\* rule starts at five digits), and "115000" lexes to 1150.00.
C17_ExamplesAmended ==
    /\ Lexed(<<"6", "9", "0", "0">>, <<"6", "9", "0", "0">>, <<>>)
    /\ Lexed(<<"1", "1", "5", "0", "0", "0">>, <<"1", "1", "5", "0">>, <<>>)

\* "6900" was lexed to 6900.00.
C17_Witness ==
    /\ apc = "done"
    /\ a_in = PyStr(<<"6", "9", "0", "0">>)
    /\ a_out = [tag |-> "float", whole |-> <<"6", "9", "0", "0">>, frac |-> <<>>]

\* C18: a call process_file(file, chat_id) ends with the file out of the
\* inbox, in processed/ only after its JSON was written to output/, so that
\* under the worker's repeated scan every file the bot saves into an inbox is
\* eventually in processed/ or failed/, and none is processed twice.
C18_InboxEmptied ==
    /\ [][process_file =>
            LET file_path == Head(worker.files)
            IN  /\ file_path \notin Range(inbox')
                /\ file_path \in processed' \cup failed'
                /\ file_path \in processed' => Stem(file_path) \in output']_vars
    /\ \A f \in Files : (f \in Range(inbox)) ~> (f \in processed \cup failed)
    /\ [](\A f \in Files : runs[f] <= 1)

\* C19: a result whose warnings hold date_not_found or total_not_found has an
\* overall_confidence of at most 0.59 and holds overall_confidence_low too.
C19_MissingDateOrTotal ==
    (/\ pc = "done"
     /\ \/ HasWarning(out_warnings, "date_not_found")
        \/ HasWarning(out_warnings, "total_not_found"))
    => /\ out_overall_confidence <= 59
       /\ HasWarning(out_warnings, "overall_confidence_low")

\* A result without a date whose total passed the consistency check and whose
\* VKN was found: 0.55 * 1.00 + 0.25 * 0.95 - 0.20 rounds to 0.59.
C19_Witness ==
    /\ pc = "done"
    /\ HasWarning(out_warnings, "date_not_found")
    /\ ~HasWarning(out_warnings, "total_not_found")
    /\ HasField(out_fields, "vkn")
    /\ Confidence("total_including_vat") = 100
    /\ out_overall_confidence = 59
    /\ HasWarning(out_warnings, "overall_confidence_low")

====
